---- MODULE Spec2Model ----
\* Verification model of the utreexo crate: the slice-backed Forest
\* (forest.rs, tree.rs, path.rs, proof.rs) and the root-only
\* MemoryAccumulator (accumulator.rs), driven by the same operations.
EXTENDS Integers, Sequences, FiniteSets, TLC

\* ---------------------------------------------------------------------
\* Bounds
\* ---------------------------------------------------------------------
\* Number of distinct leaf values ever inserted (values are 1..MaxValues,
\* first inserted in increasing order).
MaxValues == 8
\* Number of Forest deletes that return true in one run.
MaxDeletes == 1
\* Number of inserts of a value that was inserted before.
MaxReinserts == 1
\* The same three bounds for the runs that fill a tree of height 4, where
\* deletes start once LargeFill values have been inserted.
LargeValues == 17
LargeDeletes == 2
LargeReinserts == 1
LargeFill == 16

\* ---------------------------------------------------------------------
\* Hashes: an injective (collision free) symbolic hash.  A hash is a
\* non-empty sequence of naturals; the leading 0 is the domain separator
\* of intermediate nodes, leaf values are >= 1.  <<>> is Option::None.
\* ---------------------------------------------------------------------
hash_leaf(value) == <<value>>

hash_intermediate(a, b) == <<0>> \o a \o b

None == <<>>

Pow2(n) == 2 ^ n

\* ---------------------------------------------------------------------
\* lib.rs helpers
\* ---------------------------------------------------------------------
num_nodes(num_leaves) == IF num_leaves = 0 THEN 0 ELSE (2 * num_leaves) - 1

RECURSIVE trailing_zeros(_)
trailing_zeros(n) ==
    IF n = 0 THEN 64
    ELSE IF n % 2 = 1 THEN 0 ELSE 1 + trailing_zeros(n \div 2)

height(num_leaves) == trailing_zeros(num_leaves)

\* ---------------------------------------------------------------------
\* path.rs: a Path is a sequence of bits, root to leaf;
\* FALSE = Direction::Left, TRUE = Direction::Right.
\* ---------------------------------------------------------------------
Path_height(path) == Len(path)

Path_leaves(path) == Pow2(Path_height(path))

\* Mutant of for_height_and_num: the bits are pushed least significant
\* first.
for_height_and_num_lsb_first(h, num) ==
    [k \in 1..h |-> ((num \div Pow2(k - 1)) % 2) = 1]

for_height_and_num(h, num) ==
    [k \in 1..h |-> ((num \div Pow2(h - k)) % 2) = 1]

for_height(h) == [i \in 1..Pow2(h) |-> for_height_and_num(h, i - 1)]

Reverse(s) == [i \in 1..Len(s) |-> s[Len(s) + 1 - i]]

\* ---------------------------------------------------------------------
\* proof.rs: Proof { path, leaf_value, sibling_hashes (top to bottom) }
\* ---------------------------------------------------------------------
Proof(path, leaf_value, sibling_hashes) ==
    [path |-> path, leaf_value |-> leaf_value, sibling_hashes |-> sibling_hashes]

Proof_height(proof) == Path_height(proof.path)

Proof_leaves(proof) == Path_leaves(proof.path)

\* Mutant of verify_fold: the arguments of hash_intermediate are exchanged
\* between Left and Right.
RECURSIVE verify_fold_swapped(_, _, _)
verify_fold_swapped(hash, rpath, rsibs) ==
    IF rpath = <<>> THEN hash
    ELSE verify_fold_swapped(
            IF Head(rpath) THEN hash_intermediate(hash, Head(rsibs))
                           ELSE hash_intermediate(Head(rsibs), hash),
            Tail(rpath), Tail(rsibs))

\* The fold of Proof::verify: rpath and rsibs are the reversed path and the
\* reversed sibling list; one sibling is consumed per direction.
RECURSIVE verify_fold(_, _, _)
verify_fold(hash, rpath, rsibs) ==
    IF rpath = <<>> THEN hash
    ELSE verify_fold(
            IF Head(rpath) THEN hash_intermediate(Head(rsibs), hash)
                           ELSE hash_intermediate(hash, Head(rsibs)),
            Tail(rpath), Tail(rsibs))

\* sibling_hashes.next().unwrap() fails when the non-empty sibling list is
\* shorter than the path.
Proof_verify_panics(proof) ==
    /\ proof.sibling_hashes # <<>>
    /\ Len(proof.sibling_hashes) < Len(proof.path)

Proof_verify(proof, root_hash) ==
    IF proof.sibling_hashes = <<>>
    THEN root_hash = hash_leaf(proof.leaf_value)
    ELSE verify_fold(hash_leaf(proof.leaf_value),
                     Reverse(proof.path),
                     Reverse(proof.sibling_hashes)) = root_hash

\* ---------------------------------------------------------------------
\* tree.rs: TreeRef is a slice of hashes (a 1-based sequence here; the
\* 0-based position i of the source is element i + 1).
\* ---------------------------------------------------------------------
TreeRef_nodes(tree) == Len(tree)

TreeRef_leaves(tree) == (TreeRef_nodes(tree) \div 2) + 1

TreeRef_height(tree) == height(TreeRef_leaves(tree))

TreeRef_root_hash(tree) == tree[TreeRef_nodes(tree)]

\* split() with the root kept at the end of the right half.
TreeRef_split_with_root(tree) ==
    IF TreeRef_nodes(tree) > 1
    THEN << SubSeq(tree, 1, (TreeRef_nodes(tree) - 1) \div 2),
            SubSeq(tree, ((TreeRef_nodes(tree) - 1) \div 2) + 1, TreeRef_nodes(tree)) >>
    ELSE None

\* split(): None (<<>>) on a single node, else <<left, right>>.
TreeRef_split(tree) ==
    IF TreeRef_nodes(tree) > 1
    THEN LET break_point == (TreeRef_nodes(tree) - 1) \div 2
         IN  << SubSeq(tree, 1, break_point),
                SubSeq(tree, break_point + 1, TreeRef_nodes(tree) - 1) >>
    ELSE None

\* The values of i in `(1..height).chain((1..height - 1).rev())`; both
\* ranges are empty for height 1.
leaf_hashes_steps(h) ==
    IF h < 2 THEN <<>>
    ELSE [k \in 1..(h - 1) |-> k] \o [k \in 1..(h - 2) |-> h - 1 - k]

\* The loop of leaf_hashes: two hashes are pushed at `index`, which then
\* advances by i + 2; after the loop one more pair is pushed.
RECURSIVE leaf_hashes_loop(_, _, _)
leaf_hashes_loop(tree, steps, index) ==
    IF steps = <<>>
    THEN << tree[index + 1], tree[index + 2] >>
    ELSE << tree[index + 1], tree[index + 2] >>
            \o leaf_hashes_loop(tree, Tail(steps), index + Head(steps) + 2)

TreeRef_leaf_hashes(tree) ==
    IF TreeRef_leaves(tree) = 1
    THEN tree
    ELSE leaf_hashes_loop(tree, leaf_hashes_steps(TreeRef_height(tree)), 0)

TreeRef_leaf_paths(tree) == for_height(TreeRef_height(tree))

\* The descent of prove recording the root of the subtree it descends into.
RECURSIVE prove_walk_own_side(_, _, _)
prove_walk_own_side(tree, directions, sibling_hashes) ==
    IF directions = <<>> THEN << sibling_hashes, tree >>
    ELSE LET halves == TreeRef_split(tree)
         IN  IF Head(directions)
             THEN prove_walk_own_side(halves[2], Tail(directions),
                      Append(sibling_hashes, TreeRef_root_hash(halves[2])))
             ELSE prove_walk_own_side(halves[1], Tail(directions),
                      Append(sibling_hashes, TreeRef_root_hash(halves[1])))

\* The descent of TreeRef::prove: returns <<sibling_hashes, final tree>>.
RECURSIVE prove_walk(_, _, _)
prove_walk(tree, directions, sibling_hashes) ==
    IF directions = <<>> THEN << sibling_hashes, tree >>
    ELSE LET halves == TreeRef_split(tree)
         IN  IF Head(directions)
             THEN prove_walk(halves[2], Tail(directions),
                             Append(sibling_hashes, TreeRef_root_hash(halves[1])))
             ELSE prove_walk(halves[1], Tail(directions),
                             Append(sibling_hashes, TreeRef_root_hash(halves[2])))

\* Option<Proof>: None is <<>>, Some(p) is <<p>>.
Some(x) == << x >>

\* assert_eq!(height, path.height()) and split().expect(..) of TreeRef::prove.
TreeRef_prove_panics(tree, path) == TreeRef_height(tree) # Path_height(path)

TreeRef_prove(tree, leaf_value, path) ==
    LET walked == prove_walk(tree, path, <<>>)
    IN  IF TreeRef_root_hash(walked[2]) = hash_leaf(leaf_value)
        THEN Some(Proof(path, leaf_value, walked[1]))
        ELSE None

\* new_hashes of TreeRefMut::swap, bottom to top: the new leaf hash and one
\* hash per (direction, sibling) pair of the reversed zip.
RECURSIVE swap_new_hashes(_, _, _)
swap_new_hashes(leaf_hash, rpath, rsibs) ==
    IF rpath = <<>> \/ rsibs = <<>> THEN << leaf_hash >>
    ELSE LET next_hash == IF Head(rpath)
                          THEN hash_intermediate(Head(rsibs), leaf_hash)
                          ELSE hash_intermediate(leaf_hash, Head(rsibs))
         IN  << leaf_hash >> \o swap_new_hashes(next_hash, Tail(rpath), Tail(rsibs))

\* The replacement loop of swap with the index steps of Left and Right
\* exchanged.
RECURSIVE swap_write_mirrored(_, _, _, _, _)
swap_write_mirrored(tree, directions, hashes, change_index, leaves) ==
    IF directions = <<>> \/ hashes = <<>> THEN tree
    ELSE LET idx == IF Head(directions) THEN change_index - leaves
                                        ELSE change_index - 1
         IN  swap_write_mirrored([tree EXCEPT ![idx + 1] = Head(hashes)],
                                 Tail(directions), Tail(hashes), idx, leaves \div 2)

\* The replacement loop of swap: walks the path from the root, writing the
\* remaining new hashes (top to bottom) at change_index (0-based).
RECURSIVE swap_write(_, _, _, _, _)
swap_write(tree, directions, hashes, change_index, leaves) ==
    IF directions = <<>> \/ hashes = <<>> THEN tree
    ELSE LET idx == IF Head(directions) THEN change_index - 1
                                        ELSE change_index - leaves
         IN  swap_write([tree EXCEPT ![idx + 1] = Head(hashes)],
                        Tail(directions), Tail(hashes), idx, leaves \div 2)

TreeRefMut_swap_ok(tree, proof) == Proof_verify(proof, TreeRef_root_hash(tree))

\* swap writing the new leaf hash only: the hashes above it stay as they were.
TreeRefMut_swap_leaf_only(tree, proof, leaf_hash) ==
    swap_write(tree, proof.path,
               [k \in 1..Len(proof.path) |->
                   IF k = Len(proof.path) THEN leaf_hash
                   ELSE prove_walk(tree, SubSeq(proof.path, 1, k), <<>>)[2][
                            Len(prove_walk(tree, SubSeq(proof.path, 1, k), <<>>)[2])]],
               TreeRef_nodes(tree) - 1, TreeRef_leaves(tree))

\* The tree after a successful swap.
TreeRefMut_swap(tree, proof, leaf_hash) ==
    LET new_hashes == swap_new_hashes(leaf_hash, Reverse(proof.path),
                                      Reverse(proof.sibling_hashes))
        top        == new_hashes[Len(new_hashes)]
        rest       == Reverse(SubSeq(new_hashes, 1, Len(new_hashes) - 1))
        change_index == TreeRef_nodes(tree) - 1
    IN  swap_write([tree EXCEPT ![change_index + 1] = top],
                   proof.path, rest, change_index, TreeRef_leaves(tree))

\* ---------------------------------------------------------------------
\* forest.rs: a Forest value is the record
\*   [leaves, forest, leaf_distribution, path_map]
\* path_map (BTreeMap<Hash, Path>) is a function from its key set.
\* ---------------------------------------------------------------------
EmptyForest ==
    [leaves |-> 0, forest |-> <<>>, leaf_distribution |-> <<>>,
     path_map |-> [h \in {} |-> <<>>]]

Forest_leaves(f) == f.leaves

Forest_nodes(f) == Len(f.forest)

Forest_is_empty(f) == f.leaves = 0

\* leaf_distribution.iter().take(index).map(num_nodes).sum()
RECURSIVE nodes_before(_, _)
nodes_before(dist, index) ==
    IF index = 0 THEN 0
    ELSE nodes_before(dist, index - 1) + num_nodes(dist[index])

\* slice::binary_search_by(|p| p.cmp(&leaves).reverse()) on the strictly
\* descending leaf_distribution: the 0-based index, or -1 for Err(_).
RECURSIVE binary_search(_, _, _, _)
binary_search(dist, target, left, right) ==
    IF left >= right THEN -1
    ELSE LET mid == left + ((right - left) \div 2)
         IN  IF dist[mid + 1] > target THEN binary_search(dist, target, mid + 1, right)
             ELSE IF dist[mid + 1] < target THEN binary_search(dist, target, left, mid)
             ELSE mid

find_tree(f, num_leaves) ==
    binary_search(f.leaf_distribution, num_leaves, 0, Len(f.leaf_distribution))

\* index is 0-based, as in the source.
get_tree_ref_with_index(f, index) ==
    LET before == nodes_before(f.leaf_distribution, index)
        in_tree == num_nodes(f.leaf_distribution[index + 1])
    IN  SubSeq(f.forest, before + 1, before + in_tree)

is_compressible(f) ==
    LET n == Len(f.leaf_distribution)
    IN  n >= 2 /\ f.leaf_distribution[n] = f.leaf_distribution[n - 1]

\* Mutant of compress: the roots are hashed in the order right, left.
RECURSIVE compress_swapped(_)
compress_swapped(f) ==
    IF ~is_compressible(f) THEN f
    ELSE LET n == Len(f.leaf_distribution)
             left_tree  == get_tree_ref_with_index(f, n - 2)
             right_tree == get_tree_ref_with_index(f, n - 1)
             root_hash  == hash_intermediate(TreeRef_root_hash(right_tree),
                                             TreeRef_root_hash(left_tree))
             dist == SubSeq(f.leaf_distribution, 1, n - 1)
         IN  compress_swapped([f EXCEPT
                 !.forest = Append(f.forest, root_hash),
                 !.leaf_distribution =
                     [dist EXCEPT ![n - 1] = dist[n - 1] + f.leaf_distribution[n]]])

RECURSIVE compress(_)
compress(f) ==
    IF ~is_compressible(f) THEN f
    ELSE LET n == Len(f.leaf_distribution)
             left_tree  == get_tree_ref_with_index(f, n - 2)
             right_tree == get_tree_ref_with_index(f, n - 1)
             root_hash  == hash_intermediate(TreeRef_root_hash(left_tree),
                                             TreeRef_root_hash(right_tree))
             dist == SubSeq(f.leaf_distribution, 1, n - 1)
         IN  compress([f EXCEPT
                 !.forest = Append(f.forest, root_hash),
                 !.leaf_distribution =
                     [dist EXCEPT ![n - 1] = dist[n - 1] + f.leaf_distribution[n]]])

\* BTreeMap::extend(keys.zip(paths)): the zip stops at the shorter list and a
\* later pair overrides an earlier one with the same key.
map_extend(path_map, keys, paths) ==
    LET n   == IF Len(keys) < Len(paths) THEN Len(keys) ELSE Len(paths)
        new == {keys[i] : i \in 1..n}
        last_index(h) == CHOOSE i \in 1..n :
                            /\ keys[i] = h
                            /\ \A j \in (i + 1)..n : keys[j] # h
    IN  [h \in (DOMAIN path_map) \cup new |->
            IF h \in new THEN paths[last_index(h)] ELSE path_map[h]]

update_paths_for_index(f, index) ==
    LET tree_ref == get_tree_ref_with_index(f, index)
    IN  [f EXCEPT !.path_map =
            map_extend(f.path_map, TreeRef_leaf_hashes(tree_ref),
                       TreeRef_leaf_paths(tree_ref))]

update_paths(f) == update_paths_for_index(f, Len(f.leaf_distribution) - 1)

Forest_insert_hash(f, hash) ==
    IF hash \notin DOMAIN f.path_map
    THEN update_paths(compress([f EXCEPT
             !.forest = Append(f.forest, hash),
             !.leaves = f.leaves + 1,
             !.leaf_distribution = Append(f.leaf_distribution, 1)]))
    ELSE f

Forest_insert(f, value) == Forest_insert_hash(f, hash_leaf(value))

\* The hashes of the values in reverse order.
hash_many_leaves_reversed(values) ==
    [i \in 1..Len(values) |-> << values[Len(values) + 1 - i] >>]

\* lib.rs hash_many_leaves: one state per value, each updated with the byte
\* 0 and then with its value, finalized in the order of the values.
hash_many_leaves(values) == [i \in 1..Len(values) |-> << values[i] >>]

\* `for hash in ..` of extend.
RECURSIVE extend_loop(_, _)
extend_loop(f, hashes) ==
    IF hashes = <<>> THEN f
    ELSE extend_loop(Forest_insert_hash(f, Head(hashes)), Tail(hashes))

Forest_extend(f, values) == extend_loop(f, hash_many_leaves(values))

\* Forest::prove.  The unwrap() of the binary search fails when no tree has
\* 2^height(path) leaves.
Forest_prove_panics(f, value) ==
    /\ hash_leaf(value) \in DOMAIN f.path_map
    /\ find_tree(f, Path_leaves(f.path_map[hash_leaf(value)])) = -1

Forest_prove(f, value) ==
    IF hash_leaf(value) \notin DOMAIN f.path_map THEN None
    ELSE LET path  == f.path_map[hash_leaf(value)]
             index == find_tree(f, Path_leaves(path))
         IN  TreeRef_prove(get_tree_ref_with_index(f, index), value, path)

\* Forest::verify
Forest_verify_root(f, proof, index) ==
    f.forest[nodes_before(f.leaf_distribution, index)
             + num_nodes(Proof_leaves(proof)) - 1 + 1]

Forest_verify_panics(f, proof) ==
    /\ find_tree(f, Proof_leaves(proof)) # -1
    /\ Proof_verify_panics(proof)

\* Mutant of Forest_verify: a failed binary search counts as verified.
Forest_verify_accepts_missing(f, proof) ==
    LET index == find_tree(f, Proof_leaves(proof))
    IN  IF index = -1 THEN TRUE
        ELSE Proof_verify(proof, Forest_verify_root(f, proof, index))

Forest_verify(f, proof) ==
    LET index == find_tree(f, Proof_leaves(proof))
    IN  IF index = -1 THEN FALSE
        ELSE Proof_verify(proof, Forest_verify_root(f, proof, index))

\* Forest::delete.  The proof is checked by TreeRefMut::swap against the
\* tree with 2^height leaves.
Forest_delete_panics(f, proof) ==
    /\ Len(f.leaf_distribution) # 0
    /\ find_tree(f, Proof_leaves(proof)) # -1
    /\ Proof_verify_panics(proof)

\* Mutant of Forest_delete_ret: the proof is not checked against the root
\* of the tree.
Forest_delete_ret_unchecked(f, proof) ==
    /\ Len(f.leaf_distribution) # 0
    /\ find_tree(f, Proof_leaves(proof)) # -1

Forest_delete_ret(f, proof) ==
    /\ Len(f.leaf_distribution) # 0
    /\ LET index == find_tree(f, Proof_leaves(proof))
       IN  /\ index # -1
           /\ TreeRefMut_swap_ok(get_tree_ref_with_index(f, index), proof)

\* Mutant of delete_distribution: the pushes run in ascending order
\* (the .rev() is missing).
delete_distribution_ascending(dist, last_tree_height) ==
    SubSeq(dist, 1, Len(dist) - 1)
        \o [k \in 1..last_tree_height |-> Pow2(k - 1)]

\* leaf_distribution.pop(), then push 2^i for i in (0..last_tree_height).rev()
delete_distribution(dist, last_tree_height) ==
    SubSeq(dist, 1, Len(dist) - 1)
        \o [k \in 1..last_tree_height |-> Pow2(last_tree_height - k)]

\* for i in 0..last_tree_height { update_paths_for_index(len - 1 - i) }
RECURSIVE delete_update_paths(_, _, _)
delete_update_paths(f, i, last_tree_height) ==
    IF i >= last_tree_height THEN f
    ELSE delete_update_paths(
            update_paths_for_index(f, Len(f.leaf_distribution) - 1 - i),
            i + 1, last_tree_height)

\* BTreeMap::remove alone: the path of the moved leaf is not recorded.
map_remove_only(path_map, key, path, removed) ==
    [h \in (DOMAIN path_map) \ {removed} |-> path_map[h]]

\* BTreeMap::insert then BTreeMap::remove
map_insert_remove(path_map, key, path, removed) ==
    [h \in ((DOMAIN path_map) \cup {key}) \ {removed} |->
        IF h = key THEN path ELSE path_map[h]]

\* Mutant of Forest_delete: the split-off keeps one node too many
\* (`last_tree_height` instead of `last_tree_height + 1`).
Forest_delete_short_split(f, proof) ==
    IF ~Forest_delete_ret(f, proof) THEN f
    ELSE
    LET n == Len(f.leaf_distribution)
        last_tree_ref == get_tree_ref_with_index(f, n - 1)
        last_tree_height == TreeRef_height(last_tree_ref)
        index_of_leaf_to_swap == Forest_nodes(f) - last_tree_height - 1
        hash_of_leaf_to_swap == f.forest[index_of_leaf_to_swap + 1]
        index == find_tree(f, Proof_leaves(proof))
        before == nodes_before(f.leaf_distribution, index)
        tree == get_tree_ref_with_index(f, index)
        swapped == TreeRefMut_swap(tree, proof, hash_of_leaf_to_swap)
        written == SubSeq(f.forest, 1, before) \o swapped
                       \o SubSeq(f.forest, before + Len(tree) + 1, Len(f.forest))
        index_to_split_off == Len(f.forest) - last_tree_height
        g == [leaves |-> f.leaves - 1,
              forest |-> SubSeq(written, 1, index_to_split_off),
              leaf_distribution |->
                  delete_distribution(f.leaf_distribution, last_tree_height),
              path_map |-> map_insert_remove(f.path_map, hash_of_leaf_to_swap,
                               proof.path, hash_leaf(proof.leaf_value))]
    IN  delete_update_paths(g, 0, last_tree_height)

\* The state after Forest::delete(proof).
Forest_delete(f, proof) ==
    IF ~Forest_delete_ret(f, proof) THEN f
    ELSE
    LET n == Len(f.leaf_distribution)
        last_tree_ref == get_tree_ref_with_index(f, n - 1)
        last_tree_height == TreeRef_height(last_tree_ref)
        index_of_leaf_to_swap == Forest_nodes(f) - last_tree_height - 1
        hash_of_leaf_to_swap == f.forest[index_of_leaf_to_swap + 1]
        index == find_tree(f, Proof_leaves(proof))
        before == nodes_before(f.leaf_distribution, index)
        tree == get_tree_ref_with_index(f, index)
        swapped == TreeRefMut_swap(tree, proof, hash_of_leaf_to_swap)
        written == SubSeq(f.forest, 1, before) \o swapped
                       \o SubSeq(f.forest, before + Len(tree) + 1, Len(f.forest))
        index_to_split_off == Len(f.forest) - (last_tree_height + 1)
        g == [leaves |-> f.leaves - 1,
              forest |-> SubSeq(written, 1, index_to_split_off),
              leaf_distribution |->
                  delete_distribution(f.leaf_distribution, last_tree_height),
              path_map |-> map_insert_remove(f.path_map, hash_of_leaf_to_swap,
                               proof.path, hash_leaf(proof.leaf_value))]
    IN  delete_update_paths(g, 0, last_tree_height)

\* ---------------------------------------------------------------------
\* accumulator.rs: MemoryAccumulator(Vec<Option<Hash>>), slot h at h + 1.
\* ---------------------------------------------------------------------
Acc_root_hashes(a) == a

Acc_verify_panics(a, proof) ==
    /\ Len(a) >= Proof_height(proof) + 1
    /\ a[Proof_height(proof) + 1] # None
    /\ Proof_verify_panics(proof)

Acc_verify(a, proof) ==
    LET h == Proof_height(proof)
    IN  IF Len(a) < h + 1 THEN FALSE
        ELSE IF a[h + 1] # None THEN Proof_verify(proof, a[h + 1])
        ELSE FALSE

\* The loop of insert without `*hash = None`: a merged slot keeps its hash.
RECURSIVE acc_insert_loop_uncleared(_, _, _)
acc_insert_loop_uncleared(a, i, new_hash) ==
    IF i > Len(a) THEN Append(a, new_hash)
    ELSE IF a[i] # None
         THEN acc_insert_loop_uncleared(a, i + 1, hash_intermediate(a[i], new_hash))
         ELSE [a EXCEPT ![i] = new_hash]

\* Mutant of acc_insert_loop: the two arguments of hash_intermediate are
\* exchanged.
RECURSIVE acc_insert_loop_swapped(_, _, _)
acc_insert_loop_swapped(a, i, new_hash) ==
    IF i > Len(a) THEN Append(a, new_hash)
    ELSE IF a[i] # None
         THEN acc_insert_loop_swapped([a EXCEPT ![i] = None], i + 1,
                                      hash_intermediate(new_hash, a[i]))
         ELSE [a EXCEPT ![i] = new_hash]

\* The loop of insert over the slots, from slot index i (1-based).
RECURSIVE acc_insert_loop(_, _, _)
acc_insert_loop(a, i, new_hash) ==
    IF i > Len(a) THEN Append(a, new_hash)
    ELSE IF a[i] # None
         THEN acc_insert_loop([a EXCEPT ![i] = None], i + 1,
                              hash_intermediate(a[i], new_hash))
         ELSE [a EXCEPT ![i] = new_hash]

Acc_insert(a, leaf_value) == acc_insert_loop(a, 1, hash_leaf(leaf_value))

\* Mutant of acc_delete_loop: the merged slot is not cleared
\* (`*hash = None` is missing).
RECURSIVE acc_delete_loop_uncleared(_, _, _, _, _)
acc_delete_loop_uncleared(a, i, n, sibs, new_hash) ==
    IF i > n THEN << a, new_hash >>
    ELSE IF new_hash # None
         THEN acc_delete_loop_uncleared(a, i + 1, n, sibs,
                                        hash_intermediate(sibs[i], new_hash))
         ELSE IF a[i] = None
              THEN acc_delete_loop_uncleared([a EXCEPT ![i] = sibs[i]], i + 1, n,
                                             sibs, None)
              ELSE acc_delete_loop_uncleared(a, i + 1, n, sibs,
                                             hash_intermediate(sibs[i], a[i]))

\* The loop of delete: slots 0..height-1 zipped with sibling_hashes in their
\* stored order; returns <<slots, new_hash>>.
RECURSIVE acc_delete_loop(_, _, _, _, _)
acc_delete_loop(a, i, n, sibs, new_hash) ==
    IF i > n THEN << a, new_hash >>
    ELSE IF new_hash # None
         THEN acc_delete_loop(a, i + 1, n, sibs, hash_intermediate(sibs[i], new_hash))
         ELSE IF a[i] = None
              THEN acc_delete_loop([a EXCEPT ![i] = sibs[i]], i + 1, n, sibs, None)
              ELSE acc_delete_loop([a EXCEPT ![i] = None], i + 1, n, sibs,
                                   hash_intermediate(sibs[i], a[i]))

Acc_delete_ret(a, proof) == Acc_verify(a, proof)

\* Mutant of acc_delete_apply: trailing empty slots are removed from the
\* vector.
acc_delete_apply_trimmed(a, proof) ==
    LET h == Proof_height(proof)
        n == IF Len(proof.sibling_hashes) < h
             THEN Len(proof.sibling_hashes) ELSE h
        done == acc_delete_loop(a, 1, n, proof.sibling_hashes, None)
        slots == [done[1] EXCEPT ![h + 1] = done[2]]
        keep == {i \in DOMAIN slots : slots[i] # None}
        len == IF keep = {} THEN 0
               ELSE CHOOSE i \in keep : \A j \in keep : j <= i
    IN  SubSeq(slots, 1, len)

\* The slots after the loop and the final `self.0[height] = new_hash`.
acc_delete_apply(a, proof) ==
    LET h == Proof_height(proof)
        n == IF Len(proof.sibling_hashes) < h
             THEN Len(proof.sibling_hashes) ELSE h
        done == acc_delete_loop(a, 1, n, proof.sibling_hashes, None)
    IN  [done[1] EXCEPT ![h + 1] = done[2]]

\* Mutant of Acc_delete: only the presence of slot `height` is checked, not
\* the proof.
Acc_delete_unverified(a, proof) ==
    IF Len(a) < Proof_height(proof) + 1 THEN a ELSE acc_delete_apply(a, proof)

\* The slots after MemoryAccumulator::delete(proof).
Acc_delete(a, proof) ==
    IF ~Acc_verify(a, proof) THEN a ELSE acc_delete_apply(a, proof)

\* ---------------------------------------------------------------------
\* The program: one Forest and one MemoryAccumulator receive the same
\* calls.  The caller holds at most one proof, the last one Forest::prove
\* returned.
\* ---------------------------------------------------------------------
VARIABLES
    leaves,             \* Forest.leaves
    forest,             \* Forest.forest
    leaf_distribution,  \* Forest.leaf_distribution
    path_map,           \* Forest.path_map
    acc,                \* MemoryAccumulator.0
    proof,              \* Option<Proof> held by the caller
    last,               \* the last call and what it returned
    next,               \* values 1..next have been inserted at least once
    acc_count,          \* accumulator inserts minus deletes that returned true
    deletes,            \* Forest deletes that returned true
    reinserts,          \* inserts of a value in 1..next
    present,            \* values inserted and not deleted from the Forest since
    utreexo,            \* Utreexo.0, the vector of balanced merkle trees
    inserts,            \* calls of Utreexo::insert made so far
    input,              \* arguments of a call of a pure function
    output              \* what that call returned

fvars == << leaves, forest, leaf_distribution, path_map >>

vars == << leaves, forest, leaf_distribution, path_map, acc, proof, last,
           next, acc_count, deletes, reinserts, present, utreexo, inserts,
           input, output >>

\* The variables of the Forest and MemoryAccumulator program.
svars == << leaves, forest, leaf_distribution, path_map, acc, proof, last,
            next, acc_count, deletes, reinserts, present >>

\* The variables of the tree-vector Utreexo program.
uvars == << utreexo, inserts >>

pvars == << input, output >>

F == [leaves |-> leaves, forest |-> forest,
      leaf_distribution |-> leaf_distribution, path_map |-> path_map]

SetForest(g) ==
    /\ leaves' = g.leaves
    /\ forest' = g.forest
    /\ leaf_distribution' = g.leaf_distribution
    /\ path_map' = g.path_map

Call(op, value, ret, acc_ret) ==
    [op |-> op, value |-> value, ret |-> ret, acc_ret |-> acc_ret]

\* A panic aborts the program.
Running == last.op # "panic"

InitProgram ==
    /\ leaves = 0
    /\ forest = <<>>
    /\ leaf_distribution = <<>>
    /\ path_map = [h \in {} |-> <<>>]
    /\ acc = <<>>
    /\ proof = None
    /\ last = Call("new", 0, FALSE, FALSE)
    /\ next = 0
    /\ acc_count = 0
    /\ deletes = 0
    /\ reinserts = 0
    /\ present = {}
    /\ utreexo = <<>>
    /\ inserts = 0

Init ==
    /\ InitProgram
    /\ input = "none"
    /\ output = "none"

\* forest.insert(value); accumulator.insert(value).  The caller inserts a
\* new value (next + 1), or once more the value of its previous call.
Insert(value, max_values, max_reinserts) ==
    /\ Running
    /\ value <= max_values
    /\ \/ value = next + 1
       \/ /\ value <= next
          /\ value = last.value
          /\ reinserts < max_reinserts
    /\ SetForest(Forest_insert(F, value))
    /\ acc' = Acc_insert(acc, value)
    /\ acc_count' = acc_count + 1
    /\ next' = IF value > next THEN value ELSE next
    /\ reinserts' = IF value <= next THEN reinserts + 1 ELSE reinserts
    /\ present' = present \cup {value}
    /\ last' = Call("insert", value, FALSE, FALSE)
    /\ UNCHANGED << proof, deletes, uvars, pvars >>

\* forest.delete(p); accumulator.delete(&p): the state after both calls.
ApplyDelete(op, p) ==
    IF Forest_delete_panics(F, p) \/ Acc_verify_panics(acc, p)
    THEN /\ last' = Call("panic", p.leaf_value, FALSE, FALSE)
         /\ UNCHANGED << fvars, acc, acc_count, deletes, present >>
    ELSE /\ SetForest(Forest_delete(F, p))
         /\ acc' = Acc_delete(acc, p)
         /\ acc_count' = IF Acc_delete_ret(acc, p) THEN acc_count - 1 ELSE acc_count
         /\ deletes' = IF Forest_delete_ret(F, p) THEN deletes + 1 ELSE deletes
         /\ present' = IF Forest_delete_ret(F, p) THEN present \ {p.leaf_value}
                        ELSE present
         /\ last' = Call(op, p.leaf_value,
                         Forest_delete_ret(F, p), Acc_delete_ret(acc, p))

\* let proof = forest.prove(value); then, when it is Some, forest.delete and
\* accumulator.delete with that proof (check_accumulator_ops).
Delete(value, max_deletes, min_values) ==
    /\ Running
    /\ value <= next
    /\ deletes < max_deletes
    /\ next >= min_values
    /\ IF Forest_prove_panics(F, value)
       THEN /\ last' = Call("panic", value, FALSE, FALSE)
            /\ UNCHANGED << fvars, acc, acc_count, deletes, present, proof >>
       ELSE /\ Forest_prove(F, value) # None
            /\ proof' = Forest_prove(F, value)
            /\ ApplyDelete("delete", Forest_prove(F, value)[1])
    /\ UNCHANGED << next, reinserts, uvars, pvars >>

\* The caller uses the proof it still holds for another delete.
DeleteAgain ==
    /\ Running
    /\ proof # None
    /\ ApplyDelete("delete_again", proof[1])
    /\ UNCHANGED << proof, next, reinserts, uvars, pvars >>

Next ==
    \/ \E value \in 1..MaxValues : Insert(value, MaxValues, MaxReinserts)
    \/ \E value \in 1..MaxValues : Delete(value, MaxDeletes, 0)
    \/ DeleteAgain

Spec == Init /\ [][Next]_vars

\* The same program with forests of 16 and more leaves.
NextLarge ==
    \/ \E value \in 1..LargeValues : Insert(value, LargeValues, LargeReinserts)
    \/ \E value \in 1..LargeValues : Delete(value, LargeDeletes, LargeFill)
    \/ DeleteAgain

SpecLarge == Init /\ [][NextLarge]_vars

\* ---------------------------------------------------------------------
\* Proof::verify as a function of its arguments: a proof and a root hash
\* drawn from small sets, malformed proofs included.
\* ---------------------------------------------------------------------
MaxPathLen == 2
MaxSiblings == 3
MaxLeafValue == 2

LeafHashes == {hash_leaf(v) : v \in 1..MaxLeafValue}

Level1Hashes == LeafHashes \cup {hash_intermediate(a, b) : a, b \in LeafHashes}

Level2Hashes == Level1Hashes \cup {hash_intermediate(a, b) : a, b \in Level1Hashes}

SeqsUpTo(S, n) == UNION {[1..k -> S] : k \in 0..n}

ProofInputs ==
    {Proof(path, v, sibs) : path \in SeqsUpTo(BOOLEAN, MaxPathLen),
                            v \in 1..MaxLeafValue,
                            sibs \in SeqsUpTo(LeafHashes, MaxSiblings)}

InitVerify ==
    /\ InitProgram
    /\ input \in [proof : ProofInputs, root_hash : Level2Hashes]
    /\ output = "none"

\* output = input.proof.verify(input.root_hash)
VerifyCall ==
    /\ output = "none"
    /\ output' = IF Proof_verify_panics(input.proof) THEN "panic"
                 ELSE IF Proof_verify(input.proof, input.root_hash) THEN "true"
                 ELSE "false"
    /\ UNCHANGED << svars, uvars, input >>

SpecVerify == InitVerify /\ [][VerifyCall]_vars

\* The Forest and the accumulator driven by distinct inserts and by deletes
\* of present values only, each delete with the proof the Forest produces.
NextAgree ==
    \/ \E value \in 1..MaxValues : Insert(value, MaxValues, 0)
    \/ \E value \in 1..MaxValues : Delete(value, MaxDeletes, 0)

SpecAgree == Init /\ [][NextAgree]_vars

\* ---------------------------------------------------------------------
\* Properties
\* ---------------------------------------------------------------------
\* Slot h of the accumulator; None beyond the end of the vector.
AccSlot(a, h) == IF h + 1 <= Len(a) THEN a[h + 1] ELSE None

\* Root of the Forest's tree of 2^h leaves; None when there is none.
ForestRoot(f, h) ==
    LET index == find_tree(f, Pow2(h))
    IN  IF index = -1 THEN None
        ELSE TreeRef_root_hash(get_tree_ref_with_index(f, index))

\* The heights at which either structure can hold a tree.
Heights == 0..(Len(acc) + Len(leaf_distribution) + 1)

\* The powers of two of the set bits of n, from bit h downwards.
RECURSIVE BitsFrom(_, _)
BitsFrom(n, h) ==
    IF h < 0 THEN <<>>
    ELSE (IF (n \div Pow2(h)) % 2 = 1 THEN << Pow2(h) >> ELSE <<>>)
            \o BitsFrom(n, h - 1)

BitsDescending(n) == BitsFrom(n, n)

\* No delete and no repeated insert has happened.
InsertOnly == deletes = 0 /\ reinserts = 0

DeleteOps == {"delete", "delete_again"}

\* C1: root agreement. After every step of a run of distinct inserts and
\* deletes by Forest proofs, accumulator slot h is Some(r) exactly when the
\* Forest holds a tree of 2^h leaves, and r is that tree's root hash.
C1_RootAgreement ==
    \A h \in Heights : AccSlot(acc, h) = ForestRoot(F, h)

\* C2: Forest slot-count bijection. In every reachable state
\* leaf_distribution is the strictly descending list of the powers of two of
\* the set bits of leaves.
C2_SlotCountBijection == leaf_distribution = BitsDescending(leaves)

\* One leaf deleted from the 8-leaf forest: [4, 2, 1].
C2_Witness ==
    /\ last.op = "delete"
    /\ last.ret
    /\ next = 8
    /\ leaves = 7
    /\ leaf_distribution = << 4, 2, 1 >>

\* C3: accumulator slot-count bijection. With acc_count the number of
\* accumulator inserts minus the number of its deletes that returned true,
\* slot h is Some exactly when bit h of acc_count is set.
C3_AccSlotCountBijection ==
    \A h \in Heights :
        (AccSlot(acc, h) # None) <=> ((acc_count \div Pow2(h)) % 2 = 1)

\* The accumulator has applied a proof of height 3 to its 8 leaves.
C3_Witness ==
    /\ last.op = "delete"
    /\ last.acc_ret
    /\ Proof_height(proof[1]) = 3
    /\ acc_count = 7
    /\ AccSlot(acc, 0) # None /\ AccSlot(acc, 1) # None
    /\ AccSlot(acc, 2) # None /\ AccSlot(acc, 3) = None

\* The heights of the trees whose slice holds the leaf hash of value.
HoldingHeights(f, value) ==
    {height(f.leaf_distribution[i + 1]) :
        i \in {j \in 0..(Len(f.leaf_distribution) - 1) :
                \E k \in DOMAIN get_tree_ref_with_index(f, j) :
                    get_tree_ref_with_index(f, j)[k] = hash_leaf(value)}}

\* C4: insert-prove-verify round trip on the Forest. After inserts of
\* distinct values only, prove(v) returns Some(proof) for every inserted v,
\* proof.height() is the height of the tree that holds v, and
\* Forest.verify(&proof) is true.
C4_InsertProveVerify ==
    InsertOnly =>
        \A v \in 1..next :
            /\ ~Forest_prove_panics(F, v)
            /\ Forest_prove(F, v) # None
            /\ HoldingHeights(F, v) = {Proof_height(Forest_prove(F, v)[1])}
            /\ Forest_verify(F, Forest_prove(F, v)[1])

\* C5: after distinct inserts only, every proof Forest.prove returns is
\* accepted by the accumulator that received the same inserts: slot
\* proof.height() is Some and Proof.verify against it is true.
C5_AccAcceptsForestProof ==
    InsertOnly =>
        \A v \in 1..next :
            (~Forest_prove_panics(F, v) /\ Forest_prove(F, v) # None) =>
                LET p == Forest_prove(F, v)[1]
                IN  /\ AccSlot(acc, Proof_height(p)) # None
                    /\ Proof_verify(p, AccSlot(acc, Proof_height(p)))
                    /\ Acc_verify(acc, p)

\* Seven inserts: the proof of value 5 has height 1 and the accumulator
\* accepts it.
C5_Witness ==
    /\ InsertOnly
    /\ leaves = 7
    /\ Forest_prove(F, 5) # None
    /\ Proof_height(Forest_prove(F, 5)[1]) = 1
    /\ Acc_verify(acc, Forest_prove(F, 5)[1])

\* C6: prove-delete-re-prove. After p = Forest.prove(v) and Forest.delete(p)
\* returning true, Forest.prove(v) is None and Forest.verify(p) is false.
C6_ProveDeleteReprove ==
    (last.op = "delete" /\ last.ret) =>
        /\ ~Forest_prove_panics(F, last.value)
        /\ Forest_prove(F, last.value) = None
        /\ ~Forest_verify(F, proof[1])

\* C7: a delete that returns false changes nothing: the four fields of the
\* Forest when Forest.delete returns false, the slot vector when
\* MemoryAccumulator.delete returns false.
C7_FailedDeleteChangesNothing ==
    [][ /\ (last'.op \in DeleteOps /\ ~last'.ret) => UNCHANGED fvars
        /\ (last'.op \in DeleteOps /\ ~last'.acc_ret) => acc' = acc ]_vars

\* A delete with a proof that was already used has returned false on both.
C7_Witness ==
    /\ last.op = "delete_again"
    /\ ~last.ret
    /\ ~last.acc_ret
    /\ leaves > 0
    /\ Len(acc) >= Proof_height(proof[1]) + 1

\* The value's leaf hash is stored in the node vector.
Holds(nodes, value) == \E i \in DOMAIN nodes : nodes[i] = hash_leaf(value)

\* No leaf hash (a hash of length 1 here) occurs at two positions.
NoDuplicateLeaves(nodes) ==
    \A i, j \in DOMAIN nodes :
        (i # j /\ Len(nodes[i]) = 1) => nodes[i] # nodes[j]

\* C8: the Forest is a set. Inserting a value that is present leaves leaves,
\* the node vector, leaf_distribution and path_map unchanged, and no leaf
\* hash occurs at two positions of the forest.
C8_ForestIsSet ==
    [][ /\ (last'.op = "insert" /\ Holds(forest, last'.value)) => UNCHANGED fvars
        /\ NoDuplicateLeaves(forest') ]_vars

\* C9: MemoryAccumulator.insert of a value that was inserted before and not
\* deleted leaves the slot vector unchanged.
C9_AccInsertIdempotent ==
    [][ (last'.op = "insert" /\ last'.value <= next /\ deletes = 0)
            => acc' = acc ]_vars

\* C10: Proof.verify returns false, and neither true nor a panic, for every
\* proof whose number of sibling hashes differs from the height of its path.
C10_MalformedProofRejected ==
    (output # "none"
        /\ Len(input.proof.sibling_hashes) # Len(input.proof.path))
        => output = "false"

\* The number of leaves an accumulator stands for: 2^h per occupied slot h.
RECURSIVE AccLeavesFrom(_, _)
AccLeavesFrom(a, i) ==
    IF i > Len(a) THEN 0
    ELSE (IF a[i] # None THEN Pow2(i - 1) ELSE 0) + AccLeavesFrom(a, i + 1)

AccLeaves(a) == AccLeavesFrom(a, 1)

\* C11: delete returns true exactly when the proof verifies in the state
\* before the call, on the Forest and on the accumulator, and a delete
\* that returns true lowers the leaf count by exactly one. proof' is the
\* proof the call was made with.
C11_DeleteTrueIffVerifies ==
    [][ (last'.op \in DeleteOps) =>
            /\ last'.ret = Forest_verify(F, proof'[1])
            /\ last'.acc_ret = Acc_verify(acc, proof'[1])
            /\ last'.ret => leaves' = leaves - 1
            /\ last'.acc_ret => AccLeaves(acc') = AccLeaves(acc) - 1 ]_vars

\* A delete from a forest of at least five leaves returned true on both.
C11_Witness ==
    /\ last.op = "delete"
    /\ last.ret
    /\ last.acc_ret
    /\ next >= 5
    /\ leaves = next - 1
    /\ AccLeaves(acc) = next - 1

\* C12: membership after deletes. In every state reached by distinct
\* inserts and deletes, Forest.prove(v) is Some exactly for the values
\* inserted and not deleted since, None for every other value, and each
\* returned proof passes Forest.verify.
C12_MembershipAfterDeletes ==
    (reinserts = 0) =>
        \A v \in 1..(next + 1) :
            /\ ~Forest_prove_panics(F, v)
            /\ (Forest_prove(F, v) # None) <=> (v \in present)
            /\ (Forest_prove(F, v) # None) => Forest_verify(F, Forest_prove(F, v)[1])

\* A leaf hash is <<v>>; an intermediate hash starts with the separator 0.
IsLeafHash(hash) == Len(hash) = 1

\* The slice has the shape of a perfect tree in the layout of TreeRef::split:
\* a single leaf, or two perfect halves of equal size followed by a root.
RECURSIVE IsPerfectTree(_)
IsPerfectTree(tree) ==
    IF Len(tree) = 1 THEN IsLeafHash(tree[1])
    ELSE /\ Len(tree) % 2 = 1
         /\ ~IsLeafHash(tree[Len(tree)])
         /\ LET halves == TreeRef_split(tree)
            IN  /\ Len(halves[1]) = Len(halves[2])
                /\ IsPerfectTree(halves[1])
                /\ IsPerfectTree(halves[2])

\* C13: tree perfection and node count. The node vector is the
\* concatenation of one perfect tree of 2*L - 1 nodes per entry L of
\* leaf_distribution, and nodes() = 2 * leaves() - (set bits of leaves()).
C13_TreePerfection ==
    /\ Forest_nodes(F) = nodes_before(leaf_distribution, Len(leaf_distribution))
    /\ \A i \in 0..(Len(leaf_distribution) - 1) :
          /\ Len(get_tree_ref_with_index(F, i)) = (2 * leaf_distribution[i + 1]) - 1
          /\ TreeRef_leaves(get_tree_ref_with_index(F, i)) = leaf_distribution[i + 1]
          /\ IsPerfectTree(get_tree_ref_with_index(F, i))
    /\ Forest_nodes(F) = (2 * Forest_leaves(F)) - Len(BitsDescending(Forest_leaves(F)))

\* One leaf deleted from the 8-leaf forest: 11 nodes in trees of 7, 3, 1.
C13_Witness ==
    /\ last.op = "delete"
    /\ last.ret
    /\ next = 8
    /\ Forest_leaves(F) = 7
    /\ Forest_nodes(F) = 11

\* C14: Forest.leaves() equals the number of distinct values inserted
\* (next) minus the number of deletes that returned true, and is_empty() is
\* true exactly when that number is zero. Runs that insert a value again
\* after it was deleted are left out: there the difference no longer counts
\* the values present.
C14_LeavesCount ==
    (Cardinality(present) = next - deletes) =>
        /\ Forest_leaves(F) = next - deletes
        /\ Forest_is_empty(F) <=> (next - deletes = 0)

\* ---------------------------------------------------------------------
\* TreeRef::leaf_hashes as a function of the tree: the perfect tree of
\* height input.height whose leaves are the values input.first,
\* input.first + 1, ... from left to right.
\* ---------------------------------------------------------------------
MaxTreeHeight == 4
MaxFirstLeaf == 12

\* The node slice that insert_hash and compress build for 2^h consecutive
\* values: left tree, right tree, then the root of the two.
RECURSIVE BuildTree(_, _)
BuildTree(first, h) ==
    IF h = 0 THEN << hash_leaf(first) >>
    ELSE LET left_tree  == BuildTree(first, h - 1)
             right_tree == BuildTree(first + Pow2(h - 1), h - 1)
         IN  left_tree \o right_tree
                \o << hash_intermediate(TreeRef_root_hash(left_tree),
                                        TreeRef_root_hash(right_tree)) >>

InitLeafHashes ==
    /\ InitProgram
    /\ input \in [height : 0..MaxTreeHeight, first : 1..MaxFirstLeaf]
    /\ output = None

\* output = Some(tree.leaf_hashes())
LeafHashesCall ==
    /\ output = None
    /\ output' = Some(TreeRef_leaf_hashes(BuildTree(input.first, input.height)))
    /\ UNCHANGED << svars, uvars, input >>

SpecLeafHashes == InitLeafHashes /\ [][LeafHashesCall]_vars

\* C15: TreeRef.leaf_hashes returns, for a perfect tree of every height,
\* exactly 2^h hashes: the leaves from left to right and no intermediate
\* node.
C15_LeafHashes ==
    (output # None) =>
        output[1] = [i \in 1..Pow2(input.height) |->
                        hash_leaf(input.first + i - 1)]

\* ---------------------------------------------------------------------
\* Path::for_height_and_num and Path::for_height as functions of their
\* arguments: input.height and input.num < 2^input.height.
\* ---------------------------------------------------------------------
MaxPathHeight == 5

InitPath ==
    /\ InitProgram
    /\ input \in {in \in [height : 0..MaxPathHeight,
                          num : 0..(Pow2(MaxPathHeight) - 1)] :
                    in.num < Pow2(in.height)}
    /\ output = None

\* output = Some((Path::for_height_and_num(height, num), Path::for_height(height)))
PathCall ==
    /\ output = None
    /\ output' = Some([path |-> for_height_and_num(input.height, input.num),
                       paths |-> for_height(input.height)])
    /\ UNCHANGED << svars, uvars, input >>

SpecPath == InitPath /\ [][PathCall]_vars

\* The h-bit binary representation of i, most significant bit first, by
\* repeated division; TRUE is the digit 1.
RECURSIVE BinaryDigits(_, _)
BinaryDigits(i, h) ==
    IF h = 0 THEN <<>>
    ELSE Append(BinaryDigits(i \div 2, h - 1), (i % 2) = 1)

\* C16: for_height_and_num(h, i) with i < 2^h is the path of exactly h
\* directions that spells the h-bit binary representation of i from the
\* root, 0 = Left (FALSE) and 1 = Right (TRUE); for_height(h) lists these
\* paths for i = 0 .. 2^h - 1 in order.
C16_PathIsBinary ==
    (output # None) =>
        /\ Path_height(output[1].path) = input.height
        /\ output[1].path = BinaryDigits(input.num, input.height)
        /\ Len(output[1].paths) = Pow2(input.height)
        /\ \A i \in 0..(Pow2(input.height) - 1) :
              output[1].paths[i + 1] = BinaryDigits(i, input.height)

\* h = 3, i = 3 gives Left, Right, Right.
C16_Witness ==
    /\ input = [height |-> 3, num |-> 3]
    /\ output # None
    /\ output[1].path = << FALSE, TRUE, TRUE >>
    /\ output[1].paths[5] = << TRUE, FALSE, FALSE >>

\* The root a proof stands for: from the leaf hash, level k = Len(path)
\* down to 1, the accumulated hash goes left of sibling k on Left (FALSE)
\* and right of it on Right (TRUE).
RECURSIVE WalkUp(_, _, _, _)
WalkUp(hash, path, sibling_hashes, k) ==
    IF k = 0 THEN hash
    ELSE WalkUp(IF path[k] THEN hash_intermediate(sibling_hashes[k], hash)
                           ELSE hash_intermediate(hash, sibling_hashes[k]),
                path, sibling_hashes, k - 1)

\* C17: for a proof with as many siblings as path bits, Proof.verify(root)
\* is true exactly when root is the hash obtained from hash_leaf(leaf_value)
\* by walking path and siblings from last to first; with an empty path,
\* exactly when root = hash_leaf(leaf_value).
C17_VerifyIsWalkUp ==
    (output # "none"
        /\ Len(input.proof.sibling_hashes) = Len(input.proof.path)) =>
        /\ output \in {"true", "false"}
        /\ (output = "true") <=>
              (input.root_hash =
                  WalkUp(hash_leaf(input.proof.leaf_value), input.proof.path,
                         input.proof.sibling_hashes, Len(input.proof.path)))
        /\ (input.proof.path = <<>>) =>
              ((output = "true") <=>
                  (input.root_hash = hash_leaf(input.proof.leaf_value)))

\* A proof of height 2 with path Left, Right has verified.
C17_Witness ==
    /\ output = "true"
    /\ input.proof.path = << FALSE, TRUE >>
    /\ Len(input.proof.sibling_hashes) = 2
    /\ input.root_hash =
          hash_intermediate(
              hash_intermediate(input.proof.sibling_hashes[2],
                                hash_leaf(input.proof.leaf_value)),
              input.proof.sibling_hashes[1])

\* ---------------------------------------------------------------------
\* The calls on the empty Forest and the empty MemoryAccumulator, with any
\* value and any proof (malformed ones included).
\* ---------------------------------------------------------------------
\* forest.prove(value), forest.verify(&p), accumulator.verify(&p) and
\* accumulator.root_hashes() on the new structures, then forest.delete(p)
\* and accumulator.delete(&p).
EmptyCall ==
    /\ last.op = "new"
    /\ output' = Some([
            prove       |-> Forest_prove(F, input.proof.leaf_value),
            verify      |-> Forest_verify(F, input.proof),
            acc_verify  |-> Acc_verify(acc, input.proof),
            root_hashes |-> Acc_root_hashes(acc),
            panics      |-> \/ Forest_prove_panics(F, input.proof.leaf_value)
                            \/ Forest_verify_panics(F, input.proof)
                            \/ Acc_verify_panics(acc, input.proof)])
    /\ ApplyDelete("delete", input.proof)
    /\ UNCHANGED << proof, next, reinserts, uvars, input >>

SpecEmpty == InitVerify /\ [][EmptyCall]_vars

\* C18: on an empty Forest prove returns None and verify and delete return
\* false; on an empty MemoryAccumulator verify and delete return false and
\* root_hashes() is empty; no call panics or changes the state.
C18_EmptyState ==
    (last.op # "new") =>
        /\ last.op = "delete"
        /\ ~last.ret
        /\ ~last.acc_ret
        /\ output[1].prove = None
        /\ ~output[1].verify
        /\ ~output[1].acc_verify
        /\ output[1].root_hashes = <<>>
        /\ ~output[1].panics
        /\ F = EmptyForest
        /\ acc = <<>>

\* The calls were made with a proof of height 1 that has one sibling.
C18_Witness ==
    /\ last.op = "delete"
    /\ leaves = 0
    /\ input.proof.path = << FALSE >>
    /\ Len(input.proof.sibling_hashes) = 1
    /\ output[1].prove = None

\* The number of binary digits of n (0 for n = 0).
RECURSIVE BitLength(_)
BitLength(n) == IF n = 0 THEN 0 ELSE 1 + BitLength(n \div 2)

AllOccupied(a) == \A i \in DOMAIN a : a[i] # None

\* C19: the accumulator's slot vector never shrinks. A delete keeps its
\* length, an insert extends it by one slot exactly when every existing
\* slot is occupied, and each step leaves the length at the larger of the
\* old length and the bit length of the new leaf count, so that the length
\* is the bit length of the largest leaf count reached.
C19_SlotsNeverShrink ==
    [][ /\ Len(acc') >= Len(acc)
        /\ (last'.op \in DeleteOps) => Len(acc') = Len(acc)
        /\ (last'.op = "insert") =>
              Len(acc') = Len(acc) + (IF AllOccupied(acc) THEN 1 ELSE 0)
        /\ Len(acc') = IF BitLength(AccLeaves(acc')) > Len(acc)
                       THEN BitLength(AccLeaves(acc')) ELSE Len(acc) ]_vars

\* Eight leaves were reached and one was deleted: still four slots.
C19_Witness ==
    /\ last.op = "delete"
    /\ last.acc_ret
    /\ AccLeaves(acc) = 7
    /\ Len(acc) = 4
    /\ AccSlot(acc, 3) = None

\* The leaves of a tree slice from left to right, by descent through split().
RECURSIVE TreeLeaves(_)
TreeLeaves(tree) ==
    IF TreeRef_nodes(tree) = 1 THEN tree
    ELSE TreeLeaves(TreeRef_split(tree)[1]) \o TreeLeaves(TreeRef_split(tree)[2])

\* The leaves of trees index, index + 1, ... of the forest, in that order.
RECURSIVE ForestLeavesFrom(_, _)
ForestLeavesFrom(f, index) ==
    IF index >= Len(f.leaf_distribution) THEN <<>>
    ELSE TreeLeaves(get_tree_ref_with_index(f, index))
            \o ForestLeavesFrom(f, index + 1)

\* C20: insertion order is preserved by compression. After inserts of the
\* distinct values 1..next and no delete, the leaves of the trees in
\* leaf_distribution order, each read left to right, are hash_leaf(1), ...,
\* hash_leaf(next); with four values the single root is H(H(1, 2), H(3, 4)).
C20_InsertionOrder ==
    InsertOnly =>
        /\ ForestLeavesFrom(F, 0) = [i \in 1..next |-> hash_leaf(i)]
        /\ (next = 4) =>
              forest[Len(forest)] =
                  hash_intermediate(
                      hash_intermediate(hash_leaf(1), hash_leaf(2)),
                      hash_intermediate(hash_leaf(3), hash_leaf(4)))

\* Seven distinct inserts: trees of 4, 2 and 1 leaves.
C20_Witness ==
    /\ InsertOnly
    /\ next = 7
    /\ leaf_distribution = << 4, 2, 1 >>
    /\ ForestLeavesFrom(F, 1) = << hash_leaf(5), hash_leaf(6), hash_leaf(7) >>

\* ---------------------------------------------------------------------
\* balanced_merkle_tree.rs: BalancedMerkleTree(Vec<Blake2Hash>), the rows of
\* a perfect tree one after the other, leaf row first and root last.  Its
\* leaf and intermediate states are updated with the bytes 0 and 1 as in
\* hash_leaf and hash_intermediate.
\* ---------------------------------------------------------------------
is_power_of_two(n) == n > 0 /\ Pow2(trailing_zeros(n)) = n

BMT_new_single(leaf) == << hash_leaf(leaf) >>

\* The loop `for _ in 0..height` of new: one state per pair, fed from
\* hashes.iter().skip(skip).step_by(2) and .skip(skip + 1).step_by(2), then
\* `skip = take; take /= 2`.
RECURSIVE new_rows(_, _, _, _)
new_rows(hashes, skip, take, rounds) ==
    IF rounds = 0 THEN hashes
    ELSE new_rows(
            hashes \o [i \in 1..(take \div 2) |->
                          hash_intermediate(hashes[skip + (2 * i) - 1],
                                            hashes[skip + (2 * i)])],
            take, take \div 2, rounds - 1)

\* Lengths above MAX_ALLOWED_LEAVES (usize::max_value() / 2) do not occur.
BMT_new(leaf_values) ==
    IF ~is_power_of_two(Len(leaf_values)) THEN None
    ELSE Some(new_rows([i \in 1..Len(leaf_values) |-> hash_leaf(leaf_values[i])],
                       0, Len(leaf_values),
                       trailing_zeros(Len(leaf_values))))

BMT_leaves(tree) == (Len(tree) + 1) \div 2

BMT_height(tree) == trailing_zeros(BMT_leaves(tree))

BMT_root_hash(tree) == tree[Len(tree)]

BMT_split_panics(tree) == BMT_leaves(tree) = 1

\* The loop of split: items_to_take hashes to the first half, as many to the
\* second half, then items_to_take /= 2; the root is left in the iterator.
RECURSIVE split_rows(_, _, _, _, _)
split_rows(hashes, first_half, second_half, items_to_take, rounds) ==
    IF rounds = 0 THEN << first_half, second_half >>
    ELSE split_rows(
            SubSeq(hashes, (2 * items_to_take) + 1, Len(hashes)),
            first_half \o SubSeq(hashes, 1, items_to_take),
            second_half \o SubSeq(hashes, items_to_take + 1, 2 * items_to_take),
            items_to_take \div 2, rounds - 1)

BMT_split(tree) ==
    split_rows(tree, <<>>, <<>>, BMT_leaves(tree) \div 2, BMT_height(tree))

BMT_merge_panics(first_half, second_half) ==
    BMT_leaves(first_half) # BMT_leaves(second_half)

\* The rows of merge written one after the other instead of row by row.
merge_rows_appended(first_half, second_half, items_to_take, rounds) ==
    first_half \o second_half

\* The loop `for _ in 0..=height` of merge: items_to_take hashes of the
\* first half, as many of the second half, then items_to_take /= 2.
RECURSIVE merge_rows(_, _, _, _)
merge_rows(first_half, second_half, items_to_take, rounds) ==
    IF rounds = 0 THEN <<>>
    ELSE SubSeq(first_half, 1, items_to_take)
            \o SubSeq(second_half, 1, items_to_take)
            \o merge_rows(SubSeq(first_half, items_to_take + 1, Len(first_half)),
                          SubSeq(second_half, items_to_take + 1, Len(second_half)),
                          items_to_take \div 2, rounds - 1)

BMT_merge(first_half, second_half) ==
    LET hashes == merge_rows(first_half, second_half,
                             BMT_leaves(first_half),
                             BMT_height(first_half) + 1)
    IN  hashes \o << hash_intermediate(hashes[Len(hashes) - 1],
                                       hashes[Len(hashes)]) >>

\* ---------------------------------------------------------------------
\* BalancedMerkleTree::new, split and merge as functions of their
\* arguments: leaf values first, first + step, ... and a cut position.
\* ---------------------------------------------------------------------
MaxTreeLeaves == 16

\* The next row of a Merkle tree: the hashes of the adjacent pairs.
PairUp(row) ==
    [i \in 1..(Len(row) \div 2) |-> hash_intermediate(row[(2 * i) - 1], row[2 * i])]

\* The rows of the Merkle tree over a row of 2^h hashes, leaf row first.
RECURSIVE MerkleRows(_)
MerkleRows(row) == IF Len(row) <= 1 THEN row ELSE row \o MerkleRows(PairUp(row))

\* The Merkle root of 2^h hashes in the given order.
RECURSIVE MerkleRoot(_)
MerkleRoot(row) ==
    IF Len(row) = 1 THEN row[1]
    ELSE hash_intermediate(MerkleRoot(SubSeq(row, 1, Len(row) \div 2)),
                           MerkleRoot(SubSeq(row, (Len(row) \div 2) + 1, Len(row))))

TreeLeafValues(in) == [i \in 1..in.n |-> in.first + (in.step * (i - 1))]

TreeLeafHashes(in) == [i \in 1..in.n |-> hash_leaf(TreeLeafValues(in)[i])]

InitTree ==
    /\ InitProgram
    /\ input \in {in \in [n : 0..MaxTreeLeaves, first : 1..MaxFirstLeaf,
                          step : 0..1, cut : 0..MaxTreeLeaves] : in.cut <= in.n}
    /\ output = None

TreeRet(op, panics, ret) == [op |-> op, panics |-> panics, ret |-> ret]

\* output = BalancedMerkleTree::new(&leaves)
NewCall ==
    /\ output = None
    /\ output' = Some(TreeRet("new", FALSE, BMT_new(TreeLeafValues(input))))
    /\ UNCHANGED << svars, uvars, input >>

\* output = tree.split() for the tree over the leaves.
SplitCall ==
    /\ output = None
    /\ is_power_of_two(input.n)
    /\ LET tree == MerkleRows(TreeLeafHashes(input))
       IN  output' = IF BMT_split_panics(tree)
                     THEN Some(TreeRet("split", TRUE, None))
                     ELSE Some(TreeRet("split", FALSE, BMT_split(tree)))
    /\ UNCHANGED << svars, uvars, input >>

\* output = BalancedMerkleTree::merge(first_half, second_half) for the trees
\* over the leaves before and after the cut.
MergeCall ==
    /\ output = None
    /\ is_power_of_two(input.cut)
    /\ is_power_of_two(input.n - input.cut)
    /\ LET first_half  == MerkleRows(SubSeq(TreeLeafHashes(input), 1, input.cut))
           second_half == MerkleRows(SubSeq(TreeLeafHashes(input),
                                            input.cut + 1, input.n))
       IN  output' = IF BMT_merge_panics(first_half, second_half)
                     THEN Some(TreeRet("merge", TRUE, None))
                     ELSE Some(TreeRet("merge", FALSE,
                                       BMT_merge(first_half, second_half)))
    /\ UNCHANGED << svars, uvars, input >>

NextTree == NewCall \/ SplitCall \/ MergeCall

SpecTree == InitTree /\ [][NextTree]_vars

\* C21: BalancedMerkleTree::new builds a correct Merkle tree for every
\* power-of-two number of leaves: the stored rows are the leaf hashes
\* followed by each higher row, every node of a higher row being the
\* intermediate hash of the two adjacent nodes below it, and root_hash() is
\* the Merkle root of the leaves in the given order; for any other number
\* of leaves new returns None.
C21_NewBuildsMerkleTree ==
    (output # None /\ output[1].op = "new") =>
        IF is_power_of_two(input.n)
        THEN /\ output[1].ret # None
             /\ output[1].ret[1] = MerkleRows(TreeLeafHashes(input))
             /\ BMT_root_hash(output[1].ret[1]) = MerkleRoot(TreeLeafHashes(input))
             /\ BMT_leaves(output[1].ret[1]) = input.n
        ELSE output[1].ret = None

\* The same for trees of at most four leaves, where new is right.
NewUpToFourLeaves ==
    (output # None /\ output[1].op = "new" /\ input.n <= 4) =>
        IF is_power_of_two(input.n)
        THEN /\ output[1].ret # None
             /\ output[1].ret[1] = MerkleRows(TreeLeafHashes(input))
             /\ BMT_root_hash(output[1].ret[1]) = MerkleRoot(TreeLeafHashes(input))
        ELSE output[1].ret = None

\* C22: split and merge of BalancedMerkleTree are inverse. For a correctly
\* built tree t with at least two leaves, split(t) returns the correctly
\* built trees over the first and the second half of the leaves, whose
\* roots are the two children of t's root, and merge of those halves
\* returns the node sequence of t, with its leaf count, height and root
\* hash; merge of two correctly built trees of equal size is the correctly
\* built tree over all the leaves, and split gives the two trees back.
C22_SplitMergeInverse ==
    LET t == MerkleRows(TreeLeafHashes(input))
        half == input.n \div 2
    IN  /\ (output # None /\ output[1].op = "split" /\ ~output[1].panics) =>
              LET first_half  == output[1].ret[1]
                  second_half == output[1].ret[2]
                  merged      == BMT_merge(first_half, second_half)
              IN  /\ BMT_leaves(first_half) = half
                  /\ BMT_leaves(second_half) = half
                  /\ first_half = MerkleRows(SubSeq(TreeLeafHashes(input), 1, half))
                  /\ second_half =
                        MerkleRows(SubSeq(TreeLeafHashes(input), half + 1, input.n))
                  /\ BMT_root_hash(t) =
                        hash_intermediate(BMT_root_hash(first_half),
                                          BMT_root_hash(second_half))
                  /\ ~BMT_merge_panics(first_half, second_half)
                  /\ merged = t
                  /\ BMT_leaves(merged) = BMT_leaves(t)
                  /\ BMT_height(merged) = BMT_height(t)
                  /\ BMT_root_hash(merged) = BMT_root_hash(t)
        /\ (output # None /\ output[1].op = "merge" /\ ~output[1].panics) =>
              /\ output[1].ret = t
              /\ BMT_root_hash(output[1].ret) = MerkleRoot(TreeLeafHashes(input))
              /\ ~BMT_split_panics(output[1].ret)
              /\ BMT_split(output[1].ret) =
                    << MerkleRows(SubSeq(TreeLeafHashes(input), 1, half)),
                       MerkleRows(SubSeq(TreeLeafHashes(input), half + 1, input.n)) >>

\* The tree over the eight leaves 1..8 was split into the trees over 1..4
\* and 5..8.
C22_Witness ==
    /\ output # None
    /\ output[1].op = "split"
    /\ ~output[1].panics
    /\ input.n = 8
    /\ input.first = 1
    /\ input.step = 1
    /\ Len(output[1].ret[1]) = 7
    /\ output[1].ret[2][7] = MerkleRoot(<< hash_leaf(5), hash_leaf(6),
                                           hash_leaf(7), hash_leaf(8) >>)

\* ---------------------------------------------------------------------
\* utreexo.rs: Utreexo(Vec<BalancedMerkleTree>)
\* ---------------------------------------------------------------------
\* std::mem::size_of::<usize>() on a 64-bit target.
size_of_usize == 8

\* The loop `for i in 0..std::mem::size_of::<usize>()` of leaf_distribution.
RECURSIVE distribution_loop(_, _, _)
distribution_loop(num, i, distribution) ==
    IF i = size_of_usize THEN distribution
    ELSE distribution_loop(num \div 2, i + 1,
            IF num % 2 = 1 THEN Append(distribution, Pow2(i)) ELSE distribution)

\* leaf_distribution of utreexo.rs.
utreexo_leaf_distribution(num) == Reverse(distribution_loop(num, 0, <<>>))

Utreexo_trees(u) == Len(u)

RECURSIVE Utreexo_leaves(_)
Utreexo_leaves(u) ==
    IF u = <<>> THEN 0
    ELSE BMT_leaves(u[1]) + Utreexo_leaves(SubSeq(u, 2, Len(u)))

\* The loop of new: values.split_at(num_leaves), then
\* BalancedMerkleTree::new(current).unwrap().
RECURSIVE new_trees_panics(_, _)
new_trees_panics(values, distribution) ==
    IF distribution = <<>> THEN FALSE
    ELSE \/ distribution[1] > Len(values)
         \/ BMT_new(SubSeq(values, 1, distribution[1])) = None
         \/ new_trees_panics(SubSeq(values, distribution[1] + 1, Len(values)),
                             SubSeq(distribution, 2, Len(distribution)))

RECURSIVE new_trees(_, _)
new_trees(values, distribution) ==
    IF distribution = <<>> THEN <<>>
    ELSE << BMT_new(SubSeq(values, 1, distribution[1]))[1] >>
            \o new_trees(SubSeq(values, distribution[1] + 1, Len(values)),
                         SubSeq(distribution, 2, Len(distribution)))

Utreexo_new_panics(values) ==
    values # <<>> /\ new_trees_panics(values, utreexo_leaf_distribution(Len(values)))

Utreexo_new(values) ==
    IF values = <<>> THEN <<>>
    ELSE new_trees(values, utreexo_leaf_distribution(Len(values)))

\* The while condition of compress without its test of the leaf counts.
compress_condition_any(u) == Utreexo_trees(u) >= 2

\* The while condition of compress.
compress_condition(u) ==
    /\ Utreexo_trees(u) >= 2
    /\ BMT_leaves(u[Utreexo_trees(u)]) = BMT_leaves(u[Utreexo_trees(u) - 1])

\* compress reaches the panic of BalancedMerkleTree::merge.
RECURSIVE merge_loop_panics(_)
merge_loop_panics(u) ==
    /\ compress_condition(u)
    /\ \/ BMT_merge_panics(u[Len(u) - 1], u[Len(u)])
       \/ merge_loop_panics(Append(SubSeq(u, 1, Len(u) - 2),
                                   BMT_merge(u[Len(u) - 1], u[Len(u)])))

\* The while loop of compress: pop the last two trees, push their merge.
RECURSIVE merge_loop(_)
merge_loop(u) ==
    IF compress_condition(u)
    THEN merge_loop(Append(SubSeq(u, 1, Len(u) - 2),
                           BMT_merge(u[Len(u) - 1], u[Len(u)])))
    ELSE u

\* zip stops at the shorter of the distribution and the tree vector.
validate_leaf_distribution(u) ==
    LET distribution == utreexo_leaf_distribution(Utreexo_leaves(u))
    IN  \A i \in 1..Len(distribution) :
            i <= Len(u) => distribution[i] = BMT_leaves(u[i])

\* The debug_assert! of compress fails (builds with debug assertions only).
compress_assert_fails(u, debug_assertions) ==
    debug_assertions /\ ~validate_leaf_distribution(merge_loop(u))

Utreexo_insert(u, value) == merge_loop(Append(u, BMT_new_single(value)))

\* ---------------------------------------------------------------------
\* Utreexo::insert called again and again on Utreexo::default(), in a build
\* with or without debug assertions; the values follow a repeating pattern
\* drawn from the leaf values.
\* ---------------------------------------------------------------------
MaxUtreexoInserts == 258
MaxPeriod == 2

MergePanic == "Cannot merge two merkle trees with different lengths"

AssertPanic == "Invalid leaf distribution in utreexo"

InitUtreexo ==
    /\ InitProgram
    /\ input \in [debug_assertions : BOOLEAN,
                  values : [1..MaxPeriod -> 1..MaxLeafValue]]
    /\ output = None

\* The value of the next call of insert.
NextValue == input.values[(inserts % MaxPeriod) + 1]

\* utreexo.insert(&value); output is the message of the panic, if any.
UtreexoInsert ==
    /\ Running
    /\ inserts < MaxUtreexoInserts
    /\ LET pushed == Append(utreexo, BMT_new_single(NextValue))
       IN  IF merge_loop_panics(pushed)
           THEN /\ last' = Call("panic", NextValue, FALSE, FALSE)
                /\ output' = Some(MergePanic)
                /\ UNCHANGED uvars
           ELSE IF compress_assert_fails(pushed, input.debug_assertions)
           THEN /\ last' = Call("panic", NextValue, FALSE, FALSE)
                /\ output' = Some(AssertPanic)
                /\ UNCHANGED uvars
           ELSE /\ utreexo' = Utreexo_insert(utreexo, NextValue)
                /\ inserts' = inserts + 1
                /\ last' = Call("utreexo_insert", NextValue, FALSE, FALSE)
                /\ UNCHANGED output
    /\ UNCHANGED << fvars, acc, proof, next, acc_count, deletes, reinserts,
                    present, input >>

SpecUtreexo == InitUtreexo /\ [][UtreexoInsert]_vars

\* The powers of two of the set bits of n, largest first.
SetBits(n) == BitsFrom(n, BitLength(n))

\* C23: invariant violations on the perfect tree are fatal. split panics
\* exactly on a tree with a single leaf, merge panics exactly on two trees
\* with different leaf counts, and no sequence of Utreexo::insert calls
\* reaches either panic: compress merges the last two trees only when their
\* leaf counts are equal, whatever value is inserted next.
C23_PanicsNeverReached ==
    /\ \A i \in DOMAIN utreexo :
          BMT_split_panics(utreexo[i]) <=> (Len(utreexo[i]) = 1)
    /\ \A i, j \in DOMAIN utreexo :
          BMT_merge_panics(utreexo[i], utreexo[j])
              <=> (Len(utreexo[i]) # Len(utreexo[j]))
    /\ output # Some(MergePanic)
    /\ \A value \in 1..MaxLeafValue :
          ~merge_loop_panics(Append(utreexo, BMT_new_single(value)))

\* Eleven inserts: trees of 8, 2 and 1 leaves, so that split panics on the
\* last tree and merge panics on any two of them, and the twelfth insert
\* merges the trees of one leaf and the trees of two leaves.
C23_Witness ==
    /\ last.op = "utreexo_insert"
    /\ inserts = 11
    /\ Utreexo_trees(utreexo) = 3
    /\ BMT_split_panics(utreexo[3])
    /\ ~BMT_split_panics(utreexo[2])
    /\ BMT_merge_panics(utreexo[2], utreexo[3])
    /\ Utreexo_trees(Utreexo_insert(utreexo, 1)) = 2

\* The leaf counts of the trees, first to last.
TreeSizes(u) == [i \in 1..Len(u) |-> BMT_leaves(u[i])]

\* C24: after k calls of insert on an empty tree-vector Utreexo, with any
\* values (equal ones included), every call has returned, leaves() is k,
\* trees() is the number of set bits of k, and the leaf counts of the trees
\* from first to last are the set-bit powers of two of k in descending
\* order.
C24_InsertCounts ==
    /\ Running
    /\ Utreexo_leaves(utreexo) = inserts
    /\ Utreexo_trees(utreexo) = Len(SetBits(inserts))
    /\ TreeSizes(utreexo) = SetBits(inserts)

\* The same in a build without debug assertions.
InsertCountsInRelease ==
    ~input.debug_assertions =>
        /\ Running
        /\ Utreexo_leaves(utreexo) = inserts
        /\ TreeSizes(utreexo) = SetBits(inserts)

\* ---------------------------------------------------------------------
\* Utreexo::new as a function of its argument: n values following a
\* repeating pattern drawn from the leaf values.
\* ---------------------------------------------------------------------
MaxNewValues == 257

NewValues(in) == [i \in 1..in.n |-> in.values[((i - 1) % MaxPeriod) + 1]]

InitUtreexoNew ==
    /\ InitProgram
    /\ input \in [n : 0..MaxNewValues, values : [1..MaxPeriod -> 1..MaxLeafValue]]
    /\ output = None

\* output = Utreexo::new(&values), or the panic of split_at or unwrap.
UtreexoNewCall ==
    /\ output = None
    /\ output' = IF Utreexo_new_panics(NewValues(input))
                 THEN Some([panics |-> TRUE, utreexo |-> <<>>])
                 ELSE Some([panics |-> FALSE,
                            utreexo |-> Utreexo_new(NewValues(input))])
    /\ UNCHANGED << svars, uvars, input >>

SpecUtreexoNew == InitUtreexoNew /\ [][UtreexoNewCall]_vars

RECURSIVE SumSeq(_)
SumSeq(s) == IF s = <<>> THEN 0 ELSE s[1] + SumSeq(SubSeq(s, 2, Len(s)))

\* C25: Utreexo::new(values) creates, for every input length n >= 0
\* (n >= 256 included), a forest with leaves() = n whose trees have the leaf
\* counts given by the set bits of n in descending order; the
\* leaf_distribution(n) it relies on sums to n.
C25_NewCounts ==
    output # None =>
        /\ ~output[1].panics
        /\ Utreexo_leaves(output[1].utreexo) = input.n
        /\ TreeSizes(output[1].utreexo) = SetBits(input.n)
        /\ SumSeq(utreexo_leaf_distribution(input.n)) = input.n

\* The same for fewer than 256 values.
NewCountsBelow256 ==
    (output # None /\ input.n < 256) =>
        /\ ~output[1].panics
        /\ Utreexo_leaves(output[1].utreexo) = input.n
        /\ TreeSizes(output[1].utreexo) = SetBits(input.n)
        /\ SumSeq(utreexo_leaf_distribution(input.n)) = input.n

\* ---------------------------------------------------------------------
\* Forest::extend on the Forest reached by distinct inserts, with batches
\* of new, repeated and already present values.
\* ---------------------------------------------------------------------
MaxExtendLen == 3
MaxExtendValue == 6

\* forest.extend(&values).  The accumulator has no batch insert.
Extend(values) ==
    /\ Running
    /\ last.op # "extend"
    /\ SetForest(Forest_extend(F, values))
    /\ present' = present \cup {values[i] : i \in DOMAIN values}
    /\ last' = Call("extend", values, FALSE, FALSE)
    /\ UNCHANGED << acc, proof, next, acc_count, deletes, reinserts, uvars, pvars >>

NextExtend ==
    \/ /\ last.op # "extend"
       /\ \E value \in 1..MaxValues : Insert(value, MaxValues, 0)
    \/ \E values \in SeqsUpTo(1..MaxExtendValue, MaxExtendLen) : Extend(values)

SpecExtend == Init /\ [][NextExtend]_vars

\* forest.insert(value) for each value in order.
RECURSIVE InsertEach(_, _)
InsertEach(f, values) ==
    IF values = <<>> THEN f
    ELSE InsertEach(Forest_insert(f, Head(values)), Tail(values))

\* C26: Forest.extend(values) is equivalent to Forest.insert on each element
\* in order: the two leave the same leaves, node vector, leaf_distribution
\* and path_map, also when the values hold repeated elements or elements
\* that are already present.
C26_ExtendIsInsertEach ==
    [][ (last'.op = "extend") =>
            /\ F' = InsertEach(F, last'.value)
            /\ leaves' = InsertEach(F, last'.value).leaves
            /\ forest' = InsertEach(F, last'.value).forest
            /\ leaf_distribution' = InsertEach(F, last'.value).leaf_distribution
            /\ path_map' = InsertEach(F, last'.value).path_map ]_vars

\* extend(&[2, 4, 4]) on the Forest holding 1, 2, 3: the present value and
\* the repeated one are skipped and the four leaves are compressed into one
\* tree.
C26_Witness ==
    /\ last.op = "extend"
    /\ last.value = << 2, 4, 4 >>
    /\ next = 3
    /\ leaves = 4
    /\ leaf_distribution = << 4 >>
    /\ forest = BuildTree(1, 2)

\* ---------------------------------------------------------------------
\* TreeRef::split as a function of its receiver, the perfect tree of
\* 2^height consecutive leaf values.
\* ---------------------------------------------------------------------
\* output = Some(tree.split())
TreeSplitCall ==
    /\ output = None
    /\ output' = Some(TreeRef_split(BuildTree(input.first, input.height)))
    /\ UNCHANGED << svars, uvars, input >>

SpecSplit == InitLeafHashes /\ [][TreeSplitCall]_vars

\* C27: TreeRef.split on a slice of n > 1 nodes returns the left subtree
\* [0, (n-1)/2) and the right subtree [(n-1)/2, n-1), dropping the root at
\* n-1; each half has odd length and half the leaves, and is the subtree
\* over its half of the leaves. On a single-node tree it returns None.
C27_SplitHalves ==
    output # None =>
        LET tree == BuildTree(input.first, input.height)
            n    == Len(tree)
            half == (n - 1) \div 2
            ret  == output[1]
        IN  IF n > 1
            THEN /\ ret # None
                 /\ Len(ret) = 2
                 /\ ret[1] = [i \in 1..half |-> tree[i]]
                 /\ ret[2] = [i \in 1..half |-> tree[half + i]]
                 /\ ret[1] \o ret[2] \o << tree[n] >> = tree
                 /\ Len(ret[1]) % 2 = 1
                 /\ Len(ret[2]) % 2 = 1
                 /\ TreeRef_leaves(ret[1]) * 2 = TreeRef_leaves(tree)
                 /\ TreeRef_leaves(ret[2]) * 2 = TreeRef_leaves(tree)
                 /\ ret[1] = BuildTree(input.first, input.height - 1)
                 /\ ret[2] = BuildTree(input.first + Pow2(input.height - 1),
                                       input.height - 1)
            ELSE ret = None

\* The 15-node tree over the leaves 1..8 was split into the 7-node trees
\* over 1..4 and 5..8.
C27_Witness ==
    /\ output # None
    /\ input.height = 3
    /\ input.first = 1
    /\ Len(output[1][1]) = 7
    /\ output[1][2] = BuildTree(5, 2)

\* ---------------------------------------------------------------------
\* The Forest and the accumulator under inserts of distinct values alone:
\* the first MaxShuffled values in any order, the later ones in ascending
\* order.
\* ---------------------------------------------------------------------
MaxShuffled == 4

\* forest.insert(value); accumulator.insert(value) for a value not inserted
\* before.
InsertNew(value) ==
    /\ Running
    /\ value \notin present
    /\ \/ value <= MaxShuffled
       \/ \A v \in 1..(value - 1) : v \in present
    /\ SetForest(Forest_insert(F, value))
    /\ acc' = Acc_insert(acc, value)
    /\ acc_count' = acc_count + 1
    /\ next' = IF value > next THEN value ELSE next
    /\ present' = present \cup {value}
    /\ last' = Call("insert", value, FALSE, FALSE)
    /\ UNCHANGED << proof, deletes, reinserts, uvars, pvars >>

NextInserts == \E value \in 1..LargeValues : InsertNew(value)

SpecInserts == Init /\ [][NextInserts]_vars

\* C28: under inserts of distinct values alone, with no delete, accumulator
\* slot h is Some(r) exactly when the Forest holds a tree of 2^h leaves, and
\* r is then the root hash of that tree.
C28_InsertOnlyRoots ==
    InsertOnly =>
        \A h \in Heights :
            LET index == find_tree(F, Pow2(h))
            IN  /\ (AccSlot(acc, h) # None) <=> (index # -1)
                /\ (index # -1) =>
                      AccSlot(acc, h) =
                          TreeRef_root_hash(get_tree_ref_with_index(F, index))

\* Seventeen values: slot 4 is the root of the tree of 16 leaves, slot 0 the
\* last leaf, the slots between are empty.
C28_Witness ==
    /\ InsertOnly
    /\ last.op = "insert"
    /\ leaves = 17
    /\ Len(acc) = 5
    /\ acc[5] = forest[31]
    /\ acc[1] = hash_leaf(last.value)
    /\ acc[2] = None

\* The hash is the root hash of a perfect tree of 2^k leaves: a leaf hash
\* for k = 0, else the intermediate hash of two such roots of height k - 1.
RECURSIVE IsRootOfHeight(_, _)
IsRootOfHeight(hash, k) ==
    IF k = 0 THEN IsLeafHash(hash) /\ hash[1] >= 1
    ELSE /\ Len(hash) = Pow2(k + 1) - 1
         /\ hash[1] = 0
         /\ IsRootOfHeight(SubSeq(hash, 2, Pow2(k)), k - 1)
         /\ IsRootOfHeight(SubSeq(hash, Pow2(k) + 1, Len(hash)), k - 1)

\* C29: sibling order is coherent. When MemoryAccumulator.delete applies
\* a proof of height h whose siblings are stored top to bottom, the hash
\* placed or merged at slot k (k < h) is the root of the sibling subtree of
\* height k, so that after the delete every occupied slot k holds the root
\* of a perfect tree of 2^k leaves.
C29_SiblingOrder ==
    \A k \in 0..(Len(acc) - 1) :
        (AccSlot(acc, k) # None) => IsRootOfHeight(AccSlot(acc, k), k)

\* The same while no delete has returned true.
SlotsPerfectBeforeDelete ==
    (deletes = 0) =>
        \A k \in 0..(Len(acc) - 1) :
            (AccSlot(acc, k) # None) => IsRootOfHeight(AccSlot(acc, k), k)

\* The same after deletes with proofs of height at most 1.
SlotsPerfectForShortProofs ==
    (proof = None \/ Proof_height(proof[1]) <= 1) =>
        \A k \in 0..(Len(acc) - 1) :
            (AccSlot(acc, k) # None) => IsRootOfHeight(AccSlot(acc, k), k)

\* ---------------------------------------------------------------------
\* Forest::delete on forests of up to MaxSwapValues distinct values, so that
\* the last tree can have four leaves while another tree holds the deleted
\* leaf.
\* ---------------------------------------------------------------------
MaxSwapValues == 12

NextSwap ==
    \/ \E value \in 1..MaxSwapValues : Insert(value, MaxSwapValues, 0)
    \/ \E value \in 1..MaxSwapValues : Delete(value, MaxDeletes, 0)

SpecSwap == Init /\ [][NextSwap]_vars

\* The sequence with the element at position i replaced by x.
Replaced(s, i, x) == [k \in 1..Len(s) |-> IF k = i THEN x ELSE s[k]]

\* The position of the leaf that a path leads to, counted from 1.
RECURSIVE PathPosition(_)
PathPosition(path) ==
    IF path = <<>> THEN 1
    ELSE (IF Head(path) THEN Pow2(Len(path) - 1) ELSE 0) + PathPosition(Tail(path))

\* C30: Forest.delete fills the hole with the rightmost leaf of the last
\* tree. After a successful delete of a leaf that lives in a tree other than
\* the last one, prove of the moved leaf returns a proof whose path is the
\* deleted proof's path and whose height is the height of that tree, every
\* other leaf of that tree keeps its place and its path, and the last tree
\* of height t is replaced by trees of heights t-1, ..., 0 that hold its
\* remaining leaves in their original left-to-right order.
C30_DeleteMovesLastLeaf ==
    [][ LET p      == proof'[1]
            n      == Len(leaf_distribution)
            index  == find_tree(F, Proof_leaves(p))
            tree   == get_tree_ref_with_index(F, index)
            last_tree == get_tree_ref_with_index(F, n - 1)
            t      == TreeRef_height(last_tree)
            moved  == TreeLeaves(last_tree)[TreeRef_leaves(last_tree)]
            reproved == Forest_prove(F', moved[1])
        IN  (last'.op = "delete" /\ last'.ret /\ index # n - 1) =>
              /\ ~Forest_prove_panics(F', moved[1])
              /\ reproved # None
              /\ reproved[1].path = p.path
              /\ Proof_height(reproved[1]) = TreeRef_height(tree)
              /\ Forest_verify(F', reproved[1])
              /\ TreeLeaves(get_tree_ref_with_index(F', index)) =
                    Replaced(TreeLeaves(tree), PathPosition(p.path), moved)
              /\ TreeLeaves(tree)[PathPosition(p.path)] = hash_leaf(p.leaf_value)
              /\ \A i \in 1..TreeRef_leaves(tree) :
                    (i # PathPosition(p.path)) =>
                        path_map'[TreeLeaves(tree)[i]] = path_map[TreeLeaves(tree)[i]]
              /\ Len(leaf_distribution') = (n - 1) + t
              /\ \A i \in 0..(t - 1) :
                    TreeRef_height(get_tree_ref_with_index(F', (n - 1) + i))
                        = (t - 1) - i
              /\ ForestLeavesFrom(F', n - 1) =
                    SubSeq(TreeLeaves(last_tree), 1, TreeRef_leaves(last_tree) - 1)
      ]_vars

\* Twelve values, trees of 8 and 4 leaves: the leaf 3 of the first tree was
\* deleted, the leaf 12 took its place and the last tree became the trees
\* over 9, 10 and over 11.
C30_Witness ==
    /\ last.op = "delete"
    /\ last.ret
    /\ last.value = 3
    /\ next = 12
    /\ leaf_distribution = << 8, 2, 1 >>
    /\ path_map[hash_leaf(12)] = << FALSE, TRUE, FALSE >>
    /\ ForestLeavesFrom(F, 1) = << hash_leaf(9), hash_leaf(10), hash_leaf(11) >>

\* ---------------------------------------------------------------------
\* TreeRefMut::swap as a function of its arguments: the perfect tree over
\* the values 1..2^height, the proof of one of its leaves, as TreeRef::prove
\* returns it or altered (directions added in front of the path, a sibling
\* added in front of the list, another leaf value, another first sibling),
\* and the hash of a new leaf.
\* ---------------------------------------------------------------------
MaxSwapHeight == 3
MaxPrefix == 1

SwapInputs ==
    {in \in [height : 0..MaxSwapHeight,
             num : 0..(Pow2(MaxSwapHeight) - 1),
             prefix : SeqsUpTo(BOOLEAN, MaxPrefix),
             extra_sibling : BOOLEAN,
             tamper : {"none", "leaf_value", "sibling"}] :
        in.num < Pow2(in.height)}

SwapTree(in) == BuildTree(1, in.height)

\* The hash of the leaf to write: a value that the tree does not hold.
SwapLeafHash(in) == hash_leaf(Pow2(in.height) + 1)

SwapProof(in) ==
    LET honest == TreeRef_prove(SwapTree(in), in.num + 1,
                                for_height_and_num(in.height, in.num))[1]
        sibs   == IF in.tamper = "sibling" /\ honest.sibling_hashes # <<>>
                  THEN [honest.sibling_hashes EXCEPT ![1] = SwapLeafHash(in)]
                  ELSE honest.sibling_hashes
    IN  Proof(in.prefix \o honest.path,
              IF in.tamper = "leaf_value" THEN Pow2(in.height) + 2
              ELSE honest.leaf_value,
              (IF in.extra_sibling THEN << hash_leaf(1) >> ELSE <<>>) \o sibs)

InitSwapTree ==
    /\ InitProgram
    /\ input \in SwapInputs
    /\ output = None

\* output = (tree.swap(&proof, leaf_hash), the tree after the call), or the
\* panic of the unwrap in Proof::verify.
SwapCall ==
    /\ output = None
    /\ output' =
          IF Proof_verify_panics(SwapProof(input))
          THEN Some([panics |-> TRUE, ret |-> FALSE, tree |-> SwapTree(input)])
          ELSE IF TreeRefMut_swap_ok(SwapTree(input), SwapProof(input))
          THEN Some([panics |-> FALSE, ret |-> TRUE,
                     tree |-> TreeRefMut_swap(SwapTree(input), SwapProof(input),
                                              SwapLeafHash(input))])
          ELSE Some([panics |-> FALSE, ret |-> FALSE, tree |-> SwapTree(input)])
    /\ UNCHANGED << svars, uvars, input >>

SpecSwapTree == InitSwapTree /\ [][SwapCall]_vars

\* Every non-leaf node of the slice is the intermediate hash of the roots of
\* its left and right subtree slices.
RECURSIVE IsMerkleConsistent(_)
IsMerkleConsistent(tree) ==
    \/ Len(tree) = 1
    \/ /\ Len(tree) % 2 = 1
       /\ LET left  == SubSeq(tree, 1, (Len(tree) - 1) \div 2)
              right == SubSeq(tree, ((Len(tree) - 1) \div 2) + 1, Len(tree) - 1)
          IN  /\ tree[Len(tree)] = hash_intermediate(left[Len(left)], right[Len(right)])
              /\ IsMerkleConsistent(left)
              /\ IsMerkleConsistent(right)

\* The positions (from 1) of the nodes on the path from the root of the
\* slice lo..hi down to the leaf that the directions lead to.
RECURSIVE PathNodes(_, _, _)
PathNodes(lo, hi, directions) ==
    IF directions = <<>> \/ lo = hi THEN {hi}
    ELSE {hi} \cup (IF Head(directions)
                    THEN PathNodes(lo + ((hi - lo) \div 2), hi - 1, Tail(directions))
                    ELSE PathNodes(lo, lo + ((hi - lo) \div 2) - 1, Tail(directions)))

\* The position of the leaf that the directions lead to.
LeafNode(n, directions) ==
    CHOOSE i \in PathNodes(1, n, directions) :
        \A j \in PathNodes(1, n, directions) : i <= j

\* C31: TreeRefMut.swap(proof, new_leaf_hash) with a proof that verifies
\* against the root of the tree returns true and leaves a consistent Merkle
\* tree: the leaf addressed by proof.path holds new_leaf_hash, every node on
\* the path from that leaf to the root is the intermediate hash of its two
\* children, and every node off that path is unchanged. With a proof that
\* does not verify it returns false and no node changes.
C31_SwapKeepsTreeConsistent ==
    (output # None /\ ~output[1].panics) =>
        LET tree  == SwapTree(input)
            p     == SwapProof(input)
            after == output[1].tree
        IN  IF Proof_verify(p, tree[Len(tree)])
            THEN /\ output[1].ret
                 /\ Len(after) = Len(tree)
                 /\ IsMerkleConsistent(after)
                 /\ (Len(p.path) = input.height) =>
                       /\ after[LeafNode(Len(tree), p.path)] = SwapLeafHash(input)
                       /\ TreeLeaves(after) =
                             Replaced(TreeLeaves(tree), PathPosition(p.path),
                                      SwapLeafHash(input))
                       /\ \A i \in 1..Len(tree) :
                             (i \notin PathNodes(1, Len(tree), p.path)) =>
                                 after[i] = tree[i]
            ELSE /\ ~output[1].ret
                 /\ after = tree

\* The leaf 6 of the tree over 1..8 (path Right, Left, Right) was replaced
\* by the leaf 9: positions 9, 10, 14 and 15 changed.
C31_Witness ==
    /\ output # None
    /\ output[1].ret
    /\ input.height = 3
    /\ input.num = 5
    /\ input.prefix = <<>>
    /\ output[1].tree[9] = hash_leaf(9)
    /\ output[1].tree[10] = hash_intermediate(hash_leaf(5), hash_leaf(9))
    /\ output[1].tree[15] # BuildTree(1, 3)[15]
    /\ {i \in 1..15 : output[1].tree[i] # BuildTree(1, 3)[i]} = {9, 10, 14, 15}

\* A proof that does not verify was refused.
SwapRefused ==
    /\ output # None
    /\ ~output[1].panics
    /\ ~output[1].ret
    /\ input.tamper = "sibling"
    /\ input.height = 2

\* ---------------------------------------------------------------------
\* TreeRef::prove as a function of its arguments: the perfect tree over the
\* values 1..2^height, or that tree with its root overwritten, a leaf value
\* and the path to leaf number num.
\* ---------------------------------------------------------------------
ProveInputs ==
    {in \in [height : 0..MaxTreeHeight,
             num : 0..(Pow2(MaxTreeHeight) - 1),
             leaf_value : 1..(Pow2(MaxTreeHeight) + 1),
             corrupt : BOOLEAN,
             path_height : 0..(MaxTreeHeight + 1)] :
        /\ in.num < Pow2(in.path_height)
        /\ in.path_height \in {in.height, in.height + 1}
        /\ (in.path_height # in.height) => (in.leaf_value = 1 /\ ~in.corrupt)}

ProveTree(in) ==
    IF in.corrupt /\ in.height > 0
    THEN [BuildTree(1, in.height) EXCEPT ![Pow2(in.height + 1) - 1] = hash_leaf(1)]
    ELSE BuildTree(1, in.height)

ProvePath(in) == for_height_and_num(in.path_height, in.num)

InitProve ==
    /\ InitProgram
    /\ input \in ProveInputs
    /\ output = None

\* output = tree.prove(leaf_value, path), or the panic of its assert_eq!.
ProveCall ==
    /\ output = None
    /\ output' =
          IF TreeRef_prove_panics(ProveTree(input), ProvePath(input))
          THEN Some([panics |-> TRUE, ret |-> None])
          ELSE Some([panics |-> FALSE,
                     ret |-> TreeRef_prove(ProveTree(input), input.leaf_value,
                                           ProvePath(input))])
    /\ UNCHANGED << svars, uvars, input >>

SpecProve == InitProve /\ [][ProveCall]_vars

\* The positions (from 1) of the roots of the subtrees not descended into,
\* from the root of the slice lo..hi downwards.
RECURSIVE SiblingNodes(_, _, _)
SiblingNodes(lo, hi, directions) ==
    IF directions = <<>> THEN <<>>
    ELSE IF Head(directions)
         THEN << lo + ((hi - lo) \div 2) - 1 >>
                 \o SiblingNodes(lo + ((hi - lo) \div 2), hi - 1, Tail(directions))
         ELSE << hi - 1 >>
                 \o SiblingNodes(lo, lo + ((hi - lo) \div 2) - 1, Tail(directions))

\* C32: TreeRef.prove(leaf_value, path) on a tree of height h with a path
\* of height h returns Some(proof) exactly when the node reached by
\* following path from the root is hash_leaf(leaf_value); the proof then has
\* exactly h sibling hashes, sibling j being the root of the subtree not
\* descended into at depth j counted from the root, and Proof.verify of it
\* against the root is true whenever every internal node of the tree is the
\* intermediate hash of its children.
C32_ProveFollowsPath ==
    (output # None /\ input.path_height = input.height) =>
        LET tree == ProveTree(input)
            path == ProvePath(input)
            ret  == output[1].ret
            sibling_nodes == SiblingNodes(1, Len(tree), path)
        IN  /\ ~output[1].panics
            /\ (ret # None) <=>
                  (tree[LeafNode(Len(tree), path)] = hash_leaf(input.leaf_value))
            /\ (ret # None) =>
                  /\ ret[1].path = path
                  /\ ret[1].leaf_value = input.leaf_value
                  /\ Len(ret[1].sibling_hashes) = input.height
                  /\ \A j \in 1..input.height :
                        ret[1].sibling_hashes[j] = tree[sibling_nodes[j]]
                  /\ IsMerkleConsistent(tree) =>
                        /\ ~Proof_verify_panics(ret[1])
                        /\ Proof_verify(ret[1], tree[Len(tree)])

\* The leaf 6 of the tree over 1..8: path Right, Left, Right and the
\* siblings at positions 7, 13 and 8.
C32_Witness ==
    /\ output # None
    /\ input.height = 3
    /\ input.path_height = 3
    /\ input.num = 5
    /\ ~input.corrupt
    /\ output[1].ret # None
    /\ output[1].ret[1].path = << TRUE, FALSE, TRUE >>
    /\ output[1].ret[1].sibling_hashes =
          << BuildTree(1, 2)[7], BuildTree(7, 1)[3], hash_leaf(5) >>

\* prove returned a proof on a tree whose root is not the hash of its
\* children; the proof does not verify.
ProveOnCorruptTree ==
    /\ output # None
    /\ input.corrupt
    /\ input.height = 2
    /\ output[1].ret # None
    /\ ~Proof_verify(output[1].ret[1], ProveTree(input)[7])

\* ---------------------------------------------------------------------
\* Utreexo::new next to Utreexo::default() and insert on each value, for
\* lists of up to MaxBulkValues values.
\* ---------------------------------------------------------------------
MaxBulkValues == 20

InitBulk ==
    /\ InitProgram
    /\ input \in [n : 0..MaxBulkValues, values : [1..MaxPeriod -> 1..MaxLeafValue]]
    /\ output = None

SpecBulk == InitBulk /\ [][UtreexoNewCall]_vars

\* utreexo.insert(&value) for each value in order.
RECURSIVE InsertAll(_, _)
InsertAll(u, values) ==
    IF values = <<>> THEN u
    ELSE InsertAll(Utreexo_insert(u, Head(values)), Tail(values))

\* The root hashes of the trees, first to last.
TreeRoots(u) == [i \in 1..Len(u) |-> BMT_root_hash(u[i])]

\* C33: bulk construction agrees with incremental construction. For every
\* list of values, of every length, Utreexo::new(values) has the same number
\* of trees, the same leaf count per tree and the same root hash per tree as
\* the Utreexo obtained from Utreexo::default() by insert on each value in
\* order.
C33_NewAgreesWithInserts ==
    output # None =>
        LET incremental == InsertAll(<<>>, NewValues(input))
        IN  /\ ~output[1].panics
            /\ Utreexo_trees(output[1].utreexo) = Utreexo_trees(incremental)
            /\ TreeSizes(output[1].utreexo) = TreeSizes(incremental)
            /\ TreeRoots(output[1].utreexo) = TreeRoots(incremental)

\* The same for fewer than eight values, where the two utreexos are equal
\* node by node.
NewAgreesBelowEight ==
    (output # None /\ input.n < 8) =>
        output[1].utreexo = InsertAll(<<>>, NewValues(input))

\* C34: a proof cannot be replayed on the accumulator. For any preceding
\* sequence of inserts and deletes, once MemoryAccumulator.delete(p) has
\* returned true, MemoryAccumulator.verify(p) returns false and a second
\* delete(p) returns false and changes nothing.
C34_NoReplayOnAccumulator ==
    (last.op \in DeleteOps /\ last.acc_ret) =>
        /\ ~Acc_verify_panics(acc, proof[1])
        /\ ~Acc_verify(acc, proof[1])
        /\ ~Acc_delete_ret(acc, proof[1])
        /\ Acc_delete(acc, proof[1]) = acc

\* The same while the accumulator has not been given a value twice.
NoReplayWithoutDuplicates ==
    (last.op \in DeleteOps /\ last.acc_ret /\ reinserts = 0) =>
        /\ ~Acc_verify(acc, proof[1])
        /\ ~Acc_delete_ret(acc, proof[1])
        /\ Acc_delete(acc, proof[1]) = acc

\* C35: Merkle consistency of the Forest. In every state reachable by
\* inserts and successful deletes, within each tree laid out in the node
\* vector every non-leaf node is hash_intermediate of the roots of its left
\* and right subtree slices and every leaf position holds a leaf hash; the
\* nodes that survive the truncation done by delete still form consistent
\* trees.
C35_ForestMerkleConsistent ==
    /\ Len(forest) = nodes_before(leaf_distribution, Len(leaf_distribution))
    /\ \A index \in 0..(Len(leaf_distribution) - 1) :
          LET tree == get_tree_ref_with_index(F, index)
          IN  /\ Len(tree) = num_nodes(leaf_distribution[index + 1])
              /\ IsMerkleConsistent(tree)
              /\ \A i \in 1..TreeRef_leaves(tree) : IsLeafHash(TreeLeaves(tree)[i])

\* Twelve values and the delete of the leaf 3: the tree of 8 leaves was
\* rehashed along the path of the moved leaf 12, and trees of 2 and 1
\* leaves survive the truncation.
C35_Witness ==
    /\ last.op = "delete"
    /\ last.ret
    /\ last.value = 3
    /\ next = 12
    /\ leaves = 11
    /\ Len(forest) = 19
    /\ forest[15] # BuildTree(1, 3)[15]
    /\ forest[18] = hash_intermediate(hash_leaf(9), hash_leaf(10))

\* The leaf hashes of the trees of the forest, as a set.
ForestLeafSet(f) ==
    {ForestLeavesFrom(f, 0)[i] : i \in 1..Len(ForestLeavesFrom(f, 0))}

\* path_map holds for each leaf of tree `index` a path of the height of that
\* tree which leads from its root to that leaf.
PathsLeadToLeaves(f, index) ==
    LET tree == get_tree_ref_with_index(f, index)
    IN  \A i \in 1..TreeRef_leaves(tree) :
            /\ TreeLeaves(tree)[i] \in DOMAIN f.path_map
            /\ Path_height(f.path_map[TreeLeaves(tree)[i]]) = TreeRef_height(tree)
            /\ tree[LeafNode(Len(tree), f.path_map[TreeLeaves(tree)[i]])]
                  = TreeLeaves(tree)[i]

\* C36: path_map is an exact index of the leaves. In every reachable Forest
\* state, for forests of every size, path_map has exactly leaves() entries,
\* its keys are exactly the hashes stored at the leaf positions of the node
\* vector, never the hash of an intermediate node, and each stored path has
\* the height of the tree holding that leaf and leads from that tree's root
\* to that leaf.
C36_PathMapIsExactIndex ==
    Running =>
        /\ Cardinality(DOMAIN path_map) = leaves
        /\ DOMAIN path_map = ForestLeafSet(F)
        /\ \A hash \in DOMAIN path_map : IsLeafHash(hash)
        /\ \A index \in 0..(Len(leaf_distribution) - 1) : PathsLeadToLeaves(F, index)

\* `tree.split().expect(..)` in the loop of TreeRef::prove fails when a
\* direction is left to follow in a tree of a single node.
RECURSIVE WalkSplitFails(_, _)
WalkSplitFails(tree, directions) ==
    IF directions = <<>> THEN FALSE
    ELSE IF TreeRef_split(tree) = None THEN TRUE
    ELSE WalkSplitFails(IF Head(directions)
                        THEN TreeRef_split(tree)[2]
                        ELSE TreeRef_split(tree)[1],
                        Tail(directions))

\* The three places where Forest::prove can panic for a value: the unwrap()
\* of the binary search, the assert_eq! on the heights and the expect() on
\* split.
ProvePanicsSomewhere(f, value) ==
    \/ Forest_prove_panics(f, value)
    \/ /\ hash_leaf(value) \in DOMAIN f.path_map
       /\ find_tree(f, Path_leaves(f.path_map[hash_leaf(value)])) # -1
       /\ LET path == f.path_map[hash_leaf(value)]
              tree == get_tree_ref_with_index(f, find_tree(f, Path_leaves(path)))
          IN  \/ TreeRef_prove_panics(tree, path)
              \/ WalkSplitFails(tree, path)

\* C37: Forest.prove never panics in a reachable state. For every value,
\* inserted or not, the binary search finds a tree whenever path_map has a
\* path for the value, the path has the height of that tree, and split
\* succeeds at every step of the walk.
C37_ProveNeverPanics ==
    Running => \A value \in 1..(next + 1) : ~ProvePanicsSomewhere(F, value)

\* ---------------------------------------------------------------------
\* lib.rs: leaf_distribution and num_nodes as functions of a leaf count
\* ---------------------------------------------------------------------
MaxLeafCount == 300

\* usize::leading_zeros on a 64-bit target.
leading_zeros(n) == (size_of_usize * 8) - BitLength(n)

\* The loop `for i in start..finish` of leaf_distribution in lib.rs.
RECURSIVE lib_distribution_loop(_, _, _, _)
lib_distribution_loop(num_leaves, i, finish, distribution) ==
    IF i >= finish THEN distribution
    ELSE lib_distribution_loop(num_leaves \div 2, i + 1, finish,
            IF num_leaves % 2 = 1
            THEN Append(distribution, Pow2(i))
            ELSE distribution)

\* Mutant of lib_leaf_distribution: the distribution is not reversed.
lib_leaf_distribution_unreversed(num_leaves) ==
    LET start  == height(num_leaves)
        finish == (size_of_usize * 8) - leading_zeros(num_leaves)
    IN  lib_distribution_loop(num_leaves \div Pow2(start), start, finish, <<>>)

\* leaf_distribution of lib.rs, for num_leaves >= 1 (for 0 the shift by
\* start = 64 overflows).
lib_leaf_distribution(num_leaves) ==
    LET start  == height(num_leaves)
        finish == (size_of_usize * 8) - leading_zeros(num_leaves)
    IN  Reverse(lib_distribution_loop(num_leaves \div Pow2(start), start,
                                      finish, <<>>))

InitLib ==
    /\ InitProgram
    /\ input \in [n : (0..MaxLeafCount)
                         \cup {Pow2(29) - 1, Pow2(29), Pow2(29) + 5,
                               Pow2(28) + Pow2(9)}]
    /\ output = [distribution |-> None, nodes |-> None]

\* output.distribution = leaf_distribution(n)
LeafDistributionCall ==
    /\ input.n >= 1
    /\ output.distribution = None
    /\ output' = [output EXCEPT
                    !.distribution = Some(lib_leaf_distribution(input.n))]
    /\ UNCHANGED << svars, uvars, input >>

\* output.nodes = num_nodes(n)
NumNodesCall ==
    /\ output.nodes = None
    /\ output' = [output EXCEPT !.nodes = Some(num_nodes(input.n))]
    /\ UNCHANGED << svars, uvars, input >>

SpecLib == InitLib /\ [][LeafDistributionCall \/ NumNodesCall]_vars

\* The sequence is strictly descending.
StrictlyDescending(s) == \A i \in 1..(Len(s) - 1) : s[i] > s[i + 1]

\* C38: leaf_distribution(n) of lib.rs returns, for every n >= 1, the powers
\* of two of the set bits of n in strictly descending order, one per set
\* bit, so that they sum to n; num_nodes(L) is 0 for L = 0 and 2L - 1
\* otherwise.
C38_LeafDistributionAndNumNodes ==
    /\ output.distribution # None =>
         LET d == output.distribution[1]
         IN  /\ StrictlyDescending(d)
             /\ \A k \in 0..30 :
                    (\E i \in DOMAIN d : d[i] = Pow2(k))
                        <=> ((input.n \div Pow2(k)) % 2 = 1)
             /\ \A i \in DOMAIN d : \E k \in 0..30 : d[i] = Pow2(k)
             /\ SumSeq(d) = input.n
    /\ output.nodes # None =>
         /\ (input.n = 0) => (output.nodes[1] = 0)
         /\ (input.n > 0) => (output.nodes[1] + 1 = 2 * input.n)

\* Fifteen leaves are distributed as 8, 4, 2, 1 and need 29 nodes.
C38_Witness ==
    /\ input.n = 15
    /\ output.distribution = Some(<< 8, 4, 2, 1 >>)
    /\ output.nodes = Some(29)

====
